---- MODULE Spec2Model ----
(***************************************************************************)
(* A model of the go-beanstalk client connection (Conn): the write path    *)
(* (cmdTube, adjustTubes, print), the read path (readLine, readRawResp,    *)
(* parseSize, scan), and the session state (used tube, watched tubes). The *)
(* peer is a beanstalkd server that processes command lines in order.      *)
(* Byte strings are sequences of one-character strings.                    *)
(***************************************************************************)
EXTENDS Integers, Sequences, FiniteSets, TLC

VARIABLES
    used,       \* Conn.used: the remembered used tube name
    watched,    \* Conn.watched: the keys of the map (only true values are stored)
    w,          \* Conn.w: bytes written that the next flush sends
    werr,       \* Conn.w: the error of the write that failed, which the writer keeps
    buf,        \* Conn.buf: the array bodies are read into, <<>> when nil
    held,       \* the bodies operations returned, as their callers see them now
    pipe,       \* the textproto.Pipeline of the revision that has one: [id, request, response, r]
    sin,        \* bytes flushed to the socket that the server has not processed
    sout,       \* bytes the server has sent that the client has not read (Conn.r)
    srvUsed,    \* the server's used tube for this connection
    srvWatched, \* the server's watch set for this connection
    pc,         \* "idle", or "wait" between cmd's flush and the response read
    call,       \* the operation invoked last: its inputs and what cmd wrote
    ret,        \* what the operation invoked last returned
    intents,    \* per target command line in flight, the caller's intended tubes
    seen,       \* the target command the server processed last since the last invocation: its session state then, its reply
    nops        \* the number of operations invoked so far

vars == <<used, watched, w, werr, buf, held, pipe, sin, sout, srvUsed, srvWatched, pc, call, ret, intents, seen, nops>>

------------------------------------------------------------------------------
(* Bounds of the model *)

\* operations invoked on one connection
MaxOps == 2

\* the length of a body that is framed and read back
MaxBody == 3

\* bodies framed and read back on one connection
MaxFrames == 1

\* integers a response line is scanned for
MaxScanArgs == 2

\* the length of the short names that are validated
MaxShortName == 3

------------------------------------------------------------------------------
(* Byte strings *)

space == <<" ">>
crnl == <<"\r", "\n">>
yamlHead == <<"-", "-", "-", "\n">>
watching == <<"W", "A", "T", "C", "H", "I", "N", "G", " ">>
using == <<"U", "S", "I", "N", "G", " ">>

Digits == <<"0", "1", "2", "3", "4", "5", "6", "7", "8", "9">>

HasPrefix(s, p) == Len(s) >= Len(p) /\ SubSeq(s, 1, Len(p)) = p

Drop(s, n) == SubSeq(s, n + 1, Len(s))

\* index of the first occurrence of the byte c in s after position i, 0 when absent
RECURSIVE IndexByteFrom(_, _, _)
IndexByteFrom(s, c, i) ==
    IF i >= Len(s) THEN 0
    ELSE IF s[i + 1] = c THEN i + 1
    ELSE IndexByteFrom(s, c, i + 1)

IndexByte(s, c) == IndexByteFrom(s, c, 0)

\* index of the last occurrence of the byte c in s at or before position i, 0 when absent
RECURSIVE LastIndexByteFrom(_, _, _)
LastIndexByteFrom(s, c, i) ==
    IF i = 0 THEN 0
    ELSE IF s[i] = c THEN i
    ELSE LastIndexByteFrom(s, c, i - 1)

LastIndexByte(s, c) == LastIndexByteFrom(s, c, Len(s))

\* strconv.AppendUint(buf[:0], n, 10)
RECURSIVE AppendUint(_)
AppendUint(n) ==
    IF n < 10 THEN <<Digits[n + 1]>>
    ELSE AppendUint(n \div 10) \o <<Digits[(n % 10) + 1]>>

------------------------------------------------------------------------------
(* Names *)

NameChars ==
    { "\\", "-", "+", "/", ";", ".", "$", "_", "(", ")",
      "0", "1", "2", "3", "4", "5", "6", "7", "8", "9",
      "A", "B", "C", "D", "E", "F", "G", "H", "I", "J", "K", "L", "M",
      "N", "O", "P", "Q", "R", "S", "T", "U", "V", "W", "X", "Y", "Z",
      "a", "b", "c", "d", "e", "f", "g", "h", "i", "j", "k", "l", "m",
      "n", "o", "p", "q", "r", "s", "t", "u", "v", "w", "x", "y", "z" }

NameTooLong == 200

NoErr == [type |-> "nil"]
NameError(s, e) == [type |-> "NameError", name |-> s, err |-> e]
ConnError(op, e) == [type |-> "ConnError", op |-> op, err |-> e]

containsOnly(s, chars) == \A i \in 1..Len(s) : s[i] \in chars

\* checkName without the case for the empty name
checkNameNoEmpty(s) ==
    IF Len(s) >= NameTooLong THEN NameError(s, "ErrTooLong")
    ELSE IF ~containsOnly(s, NameChars) THEN NameError(s, "ErrBadChar")
    ELSE NoErr

\* checkName testing the characters before the length
checkNameCharsFirst(s) ==
    IF Len(s) = 0 THEN NameError(s, "ErrEmpty")
    ELSE IF ~containsOnly(s, NameChars) THEN NameError(s, "ErrBadChar")
    ELSE IF Len(s) >= NameTooLong THEN NameError(s, "ErrTooLong")
    ELSE NoErr

\* CheckName
checkName(s) ==
    IF Len(s) = 0 THEN NameError(s, "ErrEmpty")
    ELSE IF Len(s) >= NameTooLong THEN NameError(s, "ErrTooLong")
    ELSE IF ~containsOnly(s, NameChars) THEN NameError(s, "ErrBadChar")
    ELSE NoErr

nDefault == <<"d", "e", "f", "a", "u", "l", "t">>
nFoo == <<"f", "o", "o">>
nBar == <<"b", "a", "r">>
nBadChar == <<"*">>
nEmpty == <<>>

------------------------------------------------------------------------------
(* Inputs *)

\* a *Tube argument: <<>> is nil, <<name>> a Tube with that Name
NilTube == <<>>
TubeOf(name) == <<name>>

\* a *TubeSet argument: <<>> is nil, <<m>> a TubeSet whose Name map is m
NilTubeSet == <<>>

\* a []byte argument: <<>> is nil, <<b>> the slice b
NilBody == <<>>

\* textproto.NewConn: the Pipeline of a new connection. id is the number Next
\* hands out next, request and response the numbers whose turn it is to send
\* and to receive, r the number the operation in progress holds
NewPipeline == [id |-> 0, request |-> 0, response |-> 0, r |-> 0]

\* TubeSet.Name[s] of a Go map: false for an absent key
Lookup(m, s) == s \in DOMAIN m /\ m[s]

\* NewTubeSet(c, names...): every name given maps to true
NewTubeSet(names) == <<[s \in names |-> TRUE]>>

\* the names operations are invoked with
TubeNames == {nDefault, nFoo, nEmpty}
SetNames == {nDefault, nFoo, nBar}

\* the TubeSets Reserve is invoked on: every set NewTubeSet builds from at
\* most two of SetNames, sets with a name that fails validation, and maps a caller
\* filled with a false value
TubeSets ==
    { NewTubeSet(D) : D \in { E \in SUBSET SetNames : Cardinality(E) < 3 } }
    \cup { NewTubeSet({nBadChar}), NewTubeSet({nBar, nBadChar}) }
    \cup { <<(nFoo :> FALSE)>>, <<(nFoo :> TRUE) @@ (nBar :> FALSE)>> }

\* the orders in which a range over a map with the keys S can visit them
RECURSIVE Orders(_)
Orders(S) ==
    IF S = {} THEN { <<>> }
    ELSE UNION { { <<x>> \o p : p \in Orders(S \ {x}) } : x \in S }

------------------------------------------------------------------------------
(* Write path *)

cmdUse == <<"u", "s", "e">>
cmdWatch == <<"w", "a", "t", "c", "h">>
cmdIgnore == <<"i", "g", "n", "o", "r", "e">>

RECURSIVE printArgs(_)
printArgs(args) ==
    IF args = <<>> THEN <<>>
    ELSE space \o AppendUint(Head(args)) \o printArgs(Tail(args))

\* Conn.print: the bytes it writes
print(cmd, t, args) ==
    cmd \o (IF Len(t) > 0 THEN space \o t ELSE <<>>) \o printArgs(args)

\* Conn.printLine: the bytes it writes
printLine(cmd, t, args) == print(cmd, t, args) \o crnl

\* adjustUsed without the assignment to c.used
adjustUsedForgets(t, st) ==
    IF t # NilTube /\ t[1] # st.used
    THEN IF checkName(t[1]) # NoErr
         THEN [st EXCEPT !.err = checkName(t[1])]
         ELSE [st EXCEPT !.out = @ \o printLine(cmdUse, t[1], <<>>)]
    ELSE st

\* adjustUsed without the comparison with c.used
adjustUsedAlways(t, st) ==
    IF t # NilTube
    THEN IF checkName(t[1]) # NoErr
         THEN [st EXCEPT !.err = checkName(t[1])]
         ELSE [st EXCEPT !.out = @ \o printLine(cmdUse, t[1], <<>>), !.used = t[1]]
    ELSE st

\* adjustTubes, the used tube: st is [used, watched, out, err]
adjustUsed(t, st) ==
    IF t # NilTube /\ t[1] # st.used
    THEN IF checkName(t[1]) # NoErr
         THEN [st EXCEPT !.err = checkName(t[1])]
         ELSE [st EXCEPT !.out = @ \o printLine(cmdUse, t[1], <<>>), !.used = t[1]]
    ELSE st

\* watchLoop without the test of c.watched[s]
RECURSIVE watchLoopAll(_, _)
watchLoopAll(keys, st) ==
    IF keys = <<>> THEN st
    ELSE LET s == Head(keys) IN
         IF checkName(s) # NoErr
         THEN [st EXCEPT !.err = checkName(s)]
         ELSE watchLoopAll(Tail(keys),
                  [st EXCEPT !.out = @ \o printLine(cmdWatch, s, <<>>),
                             !.watched = @ \cup {s}])

\* adjustTubes, the loop over ts.Name, visiting its keys in the order keys
RECURSIVE watchLoop(_, _)
watchLoop(keys, st) ==
    IF keys = <<>> THEN st
    ELSE LET s == Head(keys) IN
         IF s \notin st.watched
         THEN IF checkName(s) # NoErr
              THEN [st EXCEPT !.err = checkName(s)]
              ELSE watchLoop(Tail(keys),
                       [st EXCEPT !.out = @ \o printLine(cmdWatch, s, <<>>),
                                  !.watched = @ \cup {s}])
         ELSE watchLoop(Tail(keys), st)

\* adjustTubes, the loop over c.watched, visiting its keys in the order keys
RECURSIVE ignoreLoop(_, _, _)
ignoreLoop(keys, m, st) ==
    IF keys = <<>> THEN st
    ELSE LET s == Head(keys) IN
         IF ~Lookup(m, s)
         THEN ignoreLoop(Tail(keys), m,
                  [st EXCEPT !.out = @ \o printLine(cmdIgnore, s, <<>>),
                             !.watched = @ \ {s}])
         ELSE ignoreLoop(Tail(keys), m, st)

\* the order in which a range loop visits the keys S of a map, given the
\* order first of the keys it acts on: the keys it skips have no effect
\* wherever they come, and are put last
AnyOrder(S) == CHOOSE p \in Orders(S) : TRUE
RangeOrder(first, S) ==
    SelectSeq(first, LAMBDA s : s \in S)
    \o AnyOrder(S \ { first[i] : i \in 1..Len(first) })

\* adjustTubes with the loop over c.watched run before the loop over ts.Name
adjustTubesIgnoresFirst(t, ts, kord, iord, st) ==
    LET s1 == adjustUsed(t, st) IN
    IF s1.err # NoErr \/ ts = NilTubeSet THEN s1
    ELSE LET s2 == ignoreLoop(RangeOrder(iord, s1.watched), ts[1], s1) IN
         watchLoop(RangeOrder(kord, DOMAIN ts[1]), s2)

\* adjustTubes taking no TubeSet for the empty one
adjustTubesNilIsEmpty(t, ts, kord, iord, st) ==
    LET s1 == adjustUsed(t, st) IN
    IF s1.err # NoErr THEN s1
    ELSE IF ts = NilTubeSet THEN ignoreLoop(AnyOrder(s1.watched), <<>>, s1)
    ELSE LET s2 == watchLoop(RangeOrder(kord, DOMAIN ts[1]), s1) IN
         IF s2.err # NoErr THEN s2
         ELSE ignoreLoop(RangeOrder(iord, s2.watched), ts[1], s2)

\* Conn.adjustTubes(t, ts) from the state st; kord and iord are the orders in
\* which the two range loops visit the keys they act on
adjustTubes(t, ts, kord, iord, st) ==
    LET s1 == adjustUsed(t, st) IN
    IF s1.err # NoErr \/ ts = NilTubeSet THEN s1
    ELSE LET s2 == watchLoop(RangeOrder(kord, DOMAIN ts[1]), s1) IN
         IF s2.err # NoErr THEN s2
         ELSE ignoreLoop(RangeOrder(iord, s2.watched), ts[1], s2)

\* cmdBytes without the space before the length of the body
cmdBytesNoSpace(body, op, s, args) ==
    print(op, s, args)
    \o (IF body # NilBody
        THEN AppendUint(Len(body[1])) \o crnl \o body[1]
        ELSE <<>>)
    \o crnl

\* Conn.cmdTube after adjustTubes: the bytes written for the command itself
cmdBytes(body, op, s, args) ==
    print(op, s, args)
    \o (IF body # NilBody
        THEN space \o AppendUint(Len(body[1])) \o crnl \o body[1]
        ELSE <<>>)
    \o crnl


------------------------------------------------------------------------------
(* Response words and errors *)

resBadFormat == <<"B", "A", "D", "_", "F", "O", "R", "M", "A", "T">>
resBuried == <<"B", "U", "R", "I", "E", "D">>
resDeadline == <<"D", "E", "A", "D", "L", "I", "N", "E", "_", "S", "O", "O", "N">>
resDraining == <<"D", "R", "A", "I", "N", "I", "N", "G">>
resInternal == <<"I", "N", "T", "E", "R", "N", "A", "L", "_", "E", "R", "R", "O", "R">>
resJobTooBig == <<"J", "O", "B", "_", "T", "O", "O", "_", "B", "I", "G">>
resNoCRLF == <<"E", "X", "P", "E", "C", "T", "E", "D", "_", "C", "R", "L", "F">>
resNotFound == <<"N", "O", "T", "_", "F", "O", "U", "N", "D">>
resNotIgnored == <<"N", "O", "T", "_", "I", "G", "N", "O", "R", "E", "D">>
resOOM == <<"O", "U", "T", "_", "O", "F", "_", "M", "E", "M", "O", "R", "Y">>
resTimeout == <<"T", "I", "M", "E", "D", "_", "O", "U", "T">>
resUnknown == <<"U", "N", "K", "N", "O", "W", "N", "_", "C", "O", "M", "M", "A", "N", "D">>

ErrKind(name) == [type |-> name]
unknownRespError(s) == [type |-> "unknownRespError", text |-> s]

\* the switch of findRespError on s[0]: <<matched, kind>>
respSwitch(s) ==
    CASE s[1] = "B" -> IF s = resBuried THEN <<TRUE, "ErrBuried">>
                       ELSE <<s = resBadFormat, "ErrBadFormat">>
      [] s[1] = "D" -> IF s = resDeadline THEN <<TRUE, "ErrDeadline">>
                       ELSE <<s = resDraining, "ErrDraining">>
      [] s[1] = "E" -> <<s = resNoCRLF, "ErrNoCRLF">>
      [] s[1] = "I" -> <<s = resInternal, "ErrInternal">>
      [] s[1] = "J" -> <<s = resJobTooBig, "ErrJobTooBig">>
      [] s[1] = "N" -> IF s = resNotFound THEN <<TRUE, "ErrNotFound">>
                       ELSE <<s = resNotIgnored, "ErrNotIgnored">>
      [] s[1] = "O" -> <<s = resOOM, "ErrOOM">>
      [] s[1] = "T" -> <<s = resTimeout, "ErrTimeout">>
      [] s[1] = "U" -> <<s = resUnknown, "ErrUnknown">>
      [] OTHER -> <<FALSE, "">>

\* findRespError trusting the first byte: the comparison's outcome is not used
findRespErrorFirstByte(s) ==
    IF Len(s) > 0 /\ respSwitch(s)[2] # ""
    THEN ErrKind(respSwitch(s)[2])
    ELSE unknownRespError(s)

\* findRespError
findRespError(s) ==
    IF Len(s) > 0 /\ respSwitch(s)[1]
    THEN ErrKind(respSwitch(s)[2])
    ELSE unknownRespError(s)

------------------------------------------------------------------------------
(* Parsing *)

\* ^uint64(0), scaled to 16 bits
MaxUint == 65535

\* maxSize = uint64(^uint(0) >> 1)
maxSize == MaxUint \div 2

DigitVal(c) == CHOOSE d \in 0..9 : Digits[d + 1] = c

IsDigit(c) == \E d \in 0..9 : Digits[d + 1] = c

\* parseUintFrom with < in place of <= in the overflow test
RECURSIVE parseUintFromStrict(_, _, _)
parseUintFromStrict(s, v, k) ==
    IF k >= Len(s) THEN <<v, Len(s)>>
    ELSE LET c == s[k + 1] IN
         IF IsDigit(c) /\ v < (MaxUint - DigitVal(c)) \div 10
         THEN parseUintFromStrict(s, (v * 10 + DigitVal(c)) % (MaxUint + 1), k + 1)
         ELSE <<v, k>>

\* parseUintFrom without the overflow test: the value wraps
RECURSIVE parseUintFromWraps(_, _, _)
parseUintFromWraps(s, v, k) ==
    IF k >= Len(s) THEN <<v, Len(s)>>
    ELSE LET c == s[k + 1] IN
         IF IsDigit(c)
         THEN parseUintFromWraps(s, (v * 10 + DigitVal(c)) % (MaxUint + 1), k + 1)
         ELSE <<v, k>>

\* parseUint: <<v, k>>, the loop from the value v at the byte k + 1 of s;
\* v is a uint64 (scaled), its arithmetic is modulo MaxUint + 1
RECURSIVE parseUintFrom(_, _, _)
parseUintFrom(s, v, k) ==
    IF k >= Len(s) THEN <<v, Len(s)>>
    ELSE LET c == s[k + 1] IN
         IF IsDigit(c) /\ v <= (MaxUint - DigitVal(c)) \div 10
         THEN parseUintFrom(s, (v * 10 + DigitVal(c)) % (MaxUint + 1), k + 1)
         ELSE <<v, k>>

parseUint(s) == parseUintFrom(s, 0, 0)

\* parseSize without the comparison with maxSize
parseSizeNoLimit(s) ==
    LET i == LastIndexByte(s, " ")
        b == Drop(s, i)
        nk == parseUint(b)
    IN IF i = 0 THEN [header |-> <<>>, size |-> 0, err |-> findRespError(s)]
       ELSE IF nk[2] = 0 \/ nk[2] # Len(b)
            THEN [header |-> <<>>, size |-> 0, err |-> unknownRespError(s)]
            ELSE [header |-> SubSeq(s, 1, i - 1), size |-> nk[1], err |-> NoErr]

\* parseSize: [header, size, err]
parseSize(s) ==
    LET i == LastIndexByte(s, " ")
        b == Drop(s, i)
        nk == parseUint(b)
    IN IF i = 0 THEN [header |-> <<>>, size |-> 0, err |-> findRespError(s)]
       ELSE IF nk[2] = 0 \/ nk[2] # Len(b) \/ nk[1] > maxSize
            THEN [header |-> <<>>, size |-> 0, err |-> unknownRespError(s)]
            ELSE [header |-> SubSeq(s, 1, i - 1), size |-> nk[1], err |-> NoErr]

\* Conn.scan, the loop over args from the rest s of the input: [err, args]
RECURSIVE scanArgs(_, _, _, _)
scanArgs(input, s, n, got) ==
    IF n = 0 THEN [err |-> NoErr, args |-> got]
    ELSE IF Len(s) = 0 \/ s[1] # " "
         THEN [err |-> unknownRespError(input), args |-> got]
         ELSE LET nk == parseUint(Tail(s)) IN
              IF nk[2] = 0
              THEN [err |-> unknownRespError(input), args |-> got]
              ELSE scanArgs(input, Drop(s, nk[2] + 1), n - 1, Append(got, nk[1]))

\* scan consulting findRespError before it matches the expected word
scanClassifyFirst(input, cmd, n) ==
    IF findRespError(input).type # "unknownRespError" \/ ~HasPrefix(input, cmd)
    THEN [err |-> findRespError(input), args |-> <<>>]
    ELSE scanArgs(input, Drop(input, Len(cmd)), n, <<>>)

\* Conn.scan(input, cmd, args) with len(args) = n: [err, args]
scan(input, cmd, n) ==
    IF ~HasPrefix(input, cmd)
    THEN [err |-> findRespError(input), args |-> <<>>]
    ELSE scanArgs(input, Drop(input, Len(cmd)), n, <<>>)


------------------------------------------------------------------------------
(* Read path *)

\* the stream the peer has closed ends with the mark EOF, which is no byte
Closed(stream) == stream # <<>> /\ stream[Len(stream)] = "EOF"

\* Conn.readLine on the unread stream: [avail, panic, line, err, rest]. The
\* line is not available before its line feed has arrived; lineBuf[:len-2]
\* is out of range for a line shorter than two bytes; when the stream ends
\* before a line feed, ReadSlice fails with io.EOF and there is no line.
readLine(stream) ==
    LET i == IndexByte(stream, "\n") IN
    IF i = 0
    THEN IF Closed(stream)
         THEN [avail |-> TRUE, panic |-> FALSE, line |-> <<>>, err |-> [type |-> "EOF"],
               rest |-> <<"EOF">>]
         ELSE [avail |-> FALSE, panic |-> FALSE, line |-> <<>>, err |-> NoErr,
               rest |-> stream]
    ELSE IF i < 2
    THEN [avail |-> TRUE, panic |-> TRUE, line |-> <<>>, err |-> NoErr,
          rest |-> Drop(stream, i)]
    ELSE [avail |-> TRUE, panic |-> FALSE, line |-> SubSeq(stream, 1, i - 2), err |-> NoErr,
          rest |-> Drop(stream, i)]

IsAck(line) == HasPrefix(line, watching) \/ HasPrefix(line, using)

\* skipAcks with an if in place of the loop
skipOneAck(stream) ==
    LET l == readLine(stream) IN
    IF l.avail /\ ~l.panic /\ IsAck(l.line) THEN readLine(l.rest) ELSE l

\* the first two statements of readRawResp: read a line, and read on while
\* the line is an acknowledgement
RECURSIVE skipAcks(_)
skipAcks(stream) ==
    LET l == readLine(stream) IN
    IF l.avail /\ ~l.panic /\ IsAck(l.line) THEN skipAcks(l.rest) ELSE l

\* size+2 in readRawResp, computed in the signed integer the size is held
\* in: past the largest value the sum wraps to a negative one, and make or
\* the slice bound c.buf[:size+2] panics on it
readSize(size) ==
    ((size + 2 + maxSize + 1) % (MaxUint + 1)) - (maxSize + 1)

\* readRawResp returning the body with its trailing CR NL
readRawRespKeepsCRNL(stream, op, readBody) ==
    LET l == skipAcks(stream)
        base == [avail |-> l.avail, panic |-> l.panic, line |-> l.line,
                 header |-> l.line, body |-> NilBody, err |-> NoErr, rest |-> l.rest]
        \* the bytes that have arrived after the line
        n == IF Closed(l.rest) THEN Len(l.rest) - 1 ELSE Len(l.rest)
    IN IF ~l.avail \/ l.panic THEN base
       ELSE IF l.err # NoErr THEN [base EXCEPT !.header = <<>>, !.err = ConnError(op, l.err)]
       ELSE IF ~readBody THEN base
       ELSE LET ps == parseSize(l.line) IN
            IF ps.err # NoErr
            THEN [base EXCEPT !.header = <<>>, !.err = ConnError(op, ps.err)]
            ELSE IF readSize(ps.size) < 0
                 THEN [base EXCEPT !.panic = TRUE]
            ELSE IF n < ps.size + 2
                 THEN IF Closed(l.rest)
                      THEN [base EXCEPT !.header = ps.header, !.rest = <<"EOF">>,
                                        !.err = ConnError(op,
                                            [type |-> IF n = 0 THEN "EOF"
                                                      ELSE "ErrUnexpectedEOF"])]
                      ELSE [base EXCEPT !.avail = FALSE]
                 ELSE [base EXCEPT !.header = ps.header,
                                   !.body = <<SubSeq(l.rest, 1, ps.size + 2)>>,
                                   !.rest = Drop(l.rest, ps.size + 2)]

\* readRawResp reading the body without its trailing CR NL
readRawRespLeavesCRNL(stream, op, readBody) ==
    LET l == skipAcks(stream)
        base == [avail |-> l.avail, panic |-> l.panic, line |-> l.line,
                 header |-> l.line, body |-> NilBody, err |-> NoErr, rest |-> l.rest]
        \* the bytes that have arrived after the line
        n == IF Closed(l.rest) THEN Len(l.rest) - 1 ELSE Len(l.rest)
    IN IF ~l.avail \/ l.panic THEN base
       ELSE IF l.err # NoErr THEN [base EXCEPT !.header = <<>>, !.err = ConnError(op, l.err)]
       ELSE IF ~readBody THEN base
       ELSE LET ps == parseSize(l.line) IN
            IF ps.err # NoErr
            THEN [base EXCEPT !.header = <<>>, !.err = ConnError(op, ps.err)]
            ELSE IF readSize(ps.size) < 0
                 THEN [base EXCEPT !.panic = TRUE]
            ELSE IF n < ps.size + 2
                 THEN IF Closed(l.rest)
                      THEN [base EXCEPT !.header = ps.header, !.rest = <<"EOF">>,
                                        !.err = ConnError(op,
                                            [type |-> IF n = 0 THEN "EOF"
                                                      ELSE "ErrUnexpectedEOF"])]
                      ELSE [base EXCEPT !.avail = FALSE]
                 ELSE [base EXCEPT !.header = ps.header,
                                   !.body = <<SubSeq(l.rest, 1, ps.size)>>,
                                   !.rest = Drop(l.rest, ps.size)]

\* readRawResp returning what has arrived of a body cut short
readRawRespShortBody(stream, op, readBody) ==
    LET l == skipAcks(stream)
        base == [avail |-> l.avail, panic |-> l.panic, line |-> l.line,
                 header |-> l.line, body |-> NilBody, err |-> NoErr, rest |-> l.rest]
        \* the bytes that have arrived after the line
        n == IF Closed(l.rest) THEN Len(l.rest) - 1 ELSE Len(l.rest)
    IN IF ~l.avail \/ l.panic THEN base
       ELSE IF l.err # NoErr THEN [base EXCEPT !.header = <<>>, !.err = ConnError(op, l.err)]
       ELSE IF ~readBody THEN base
       ELSE LET ps == parseSize(l.line) IN
            IF ps.err # NoErr
            THEN [base EXCEPT !.header = <<>>, !.err = ConnError(op, ps.err)]
            ELSE IF readSize(ps.size) < 0
                 THEN [base EXCEPT !.panic = TRUE]
            ELSE IF n < ps.size + 2
                 THEN IF Closed(l.rest)
                      THEN [base EXCEPT !.header = ps.header, !.rest = <<"EOF">>,
                                        !.body = <<SubSeq(l.rest, 1, n)>>]
                      ELSE [base EXCEPT !.avail = FALSE]
                 ELSE [base EXCEPT !.header = ps.header,
                                   !.body = <<SubSeq(l.rest, 1, ps.size)>>,
                                   !.rest = Drop(l.rest, ps.size + 2)]

\* Conn.readRawResp(r, readBody) on the unread stream:
\* [avail, panic, line, header, body, err, rest]. io.ReadFull fails with
\* io.EOF when the stream ends before the first byte of the body and its
\* terminator, with io.ErrUnexpectedEOF when it ends within them.
readRawResp(stream, op, readBody) ==
    LET l == skipAcks(stream)
        base == [avail |-> l.avail, panic |-> l.panic, line |-> l.line,
                 header |-> l.line, body |-> NilBody, err |-> NoErr, rest |-> l.rest]
        \* the bytes that have arrived after the line
        n == IF Closed(l.rest) THEN Len(l.rest) - 1 ELSE Len(l.rest)
    IN IF ~l.avail \/ l.panic THEN base
       ELSE IF l.err # NoErr THEN [base EXCEPT !.header = <<>>, !.err = ConnError(op, l.err)]
       ELSE IF ~readBody THEN base
       ELSE LET ps == parseSize(l.line) IN
            IF ps.err # NoErr
            THEN [base EXCEPT !.header = <<>>, !.err = ConnError(op, ps.err)]
            ELSE IF readSize(ps.size) < 0
                 THEN [base EXCEPT !.panic = TRUE]
            ELSE IF n < ps.size + 2
                 THEN IF Closed(l.rest)
                      THEN [base EXCEPT !.header = ps.header, !.rest = <<"EOF">>,
                                        !.err = ConnError(op,
                                            [type |-> IF n = 0 THEN "EOF"
                                                      ELSE "ErrUnexpectedEOF"])]
                      ELSE [base EXCEPT !.avail = FALSE]
                 ELSE [base EXCEPT !.header = ps.header,
                                   !.body = <<SubSeq(l.rest, 1, ps.size)>>,
                                   !.rest = Drop(l.rest, ps.size + 2)]

\* Conn.readRespArgs after readRawResp returned rr: [err, body, args]
readRespArgs(rr, op, cmd, n) ==
    IF rr.err # NoErr THEN [err |-> rr.err, body |-> NilBody, args |-> <<>>]
    ELSE LET sc == scan(rr.header, cmd, n) IN
         IF sc.err # NoErr
         THEN [err |-> ConnError(op, sc.err), body |-> NilBody, args |-> sc.args]
         ELSE [err |-> NoErr, body |-> rr.body, args |-> sc.args]

\* readRawResp, the read of a declared body with its CR LF into c.buf, from
\* the array b with the bodies h returned earlier: [buf, held]. c.buf is made
\* anew when it is shorter than the read asks for, and the bodies returned
\* from the array it replaces keep that array; otherwise io.ReadFull writes
\* over the front of the array the earlier bodies are slices of. A byte of
\* a new array that the read did not reach is the zero byte, "NUL"
readInto(b, h, stream, readBody) ==
    LET into(l, ps) ==
            LET n == IF Closed(l.rest) THEN Len(l.rest) - 1 ELSE Len(l.rest)
                want == ps.size + 2
                got == SubSeq(l.rest, 1, IF n < want THEN n ELSE want)
                over == got \o Drop(b, Len(got))
            IN IF \/ ~l.avail \/ l.panic \/ l.err # NoErr \/ ~readBody \/ ps.err # NoErr
                  \/ readSize(ps.size) < 0
               THEN [buf |-> b, held |-> h]
               ELSE IF Len(b) < want
               THEN [buf |-> got \o [i \in 1..(want - Len(got)) |-> "NUL"],
                     held |-> [i \in DOMAIN h |-> [h[i] EXCEPT !.shared = FALSE]]]
               ELSE [buf |-> over,
                     held |-> [i \in DOMAIN h |->
                                  IF h[i].shared
                                  THEN [h[i] EXCEPT !.now = SubSeq(over, 1, Len(h[i].now))]
                                  ELSE h[i]]]
    IN CHOOSE r \in UNION { { into(l, ps) : ps \in {parseSize(l.line)} } :
                                l \in {skipAcks(stream)} } : TRUE

\* the body an operation returns to its caller, a slice of c.buf, joins the
\* bodies held; Stats, StatsJob, Tube.Stats and ListTubes return strings and
\* numbers converted from the body, not the body
holdBody(h, readBody, decoded, res) ==
    IF readBody /\ ~decoded /\ res.err = NoErr /\ res.body # NilBody
    THEN Append(h, [was |-> res.body[1], now |-> res.body[1], shared |-> TRUE])
    ELSE h

------------------------------------------------------------------------------
(* Command and response words *)

opPut == <<"p", "u", "t">>
opPeekReady == <<"p", "e", "e", "k", "-", "r", "e", "a", "d", "y">>
opPeekDelayed == <<"p", "e", "e", "k", "-", "d", "e", "l", "a", "y", "e", "d">>
opPeekBuried == <<"p", "e", "e", "k", "-", "b", "u", "r", "i", "e", "d">>
opKick == <<"k", "i", "c", "k">>
opReserve == <<"r", "e", "s", "e", "r", "v", "e", "-", "w", "i", "t", "h", "-", "t", "i", "m", "e", "o", "u", "t">>
opDelete == <<"d", "e", "l", "e", "t", "e">>
opPeek == <<"p", "e", "e", "k">>
wInserted == <<"I", "N", "S", "E", "R", "T", "E", "D">>
wFound == <<"F", "O", "U", "N", "D">>
wKicked == <<"K", "I", "C", "K", "E", "D">>
wReserved == <<"R", "E", "S", "E", "R", "V", "E", "D">>
wDeleted == <<"D", "E", "L", "E", "T", "E", "D">>
opStatsTube == <<"s", "t", "a", "t", "s", "-", "t", "u", "b", "e">>
opPauseTube == <<"p", "a", "u", "s", "e", "-", "t", "u", "b", "e">>
wOK == <<"O", "K">>
wPaused == <<"P", "A", "U", "S", "E", "D">>


------------------------------------------------------------------------------
(* Tube operations: response decoding *)

RECURSIVE skipSpaces(_)
skipSpaces(s) == IF Len(s) > 0 /\ s[1] = " " THEN skipSpaces(Tail(s)) ELSE s

\* the leading run of decimal digits of s
RECURSIVE digitRun(_)
digitRun(s) ==
    IF Len(s) > 0 /\ IsDigit(s[1]) THEN <<s[1]>> \o digitRun(Tail(s)) ELSE <<>>

\* the value of a run of digits, saturating just above MaxUint
RECURSIVE digitsValue(_, _)
digitsValue(ds, v) ==
    IF ds = <<>> \/ v > MaxUint THEN v
    ELSE digitsValue(Tail(ds), v * 10 + DigitVal(Head(ds)))

\* fmt.Sscanf(input, "<word> %d", &id) with an unsigned id: [ok, id]. The
\* word is matched literally, the space of the format matches any number of
\* spaces, the verb takes the following digits, what follows them is not read.
sscanfUint(input, word) ==
    IF ~HasPrefix(input, word) THEN [ok |-> FALSE, id |-> 0]
    ELSE LET ds == digitRun(skipSpaces(Drop(input, Len(word))))
             v == digitsValue(ds, 0)
         IN IF ds = <<>> \/ v > MaxUint THEN [ok |-> FALSE, id |-> 0]
            ELSE [ok |-> TRUE, id |-> v]

\* scan(input, "<word> %d", &id) of the Sscanf revision: [err, args]
scanf(input, word) ==
    LET r == sscanfUint(input, word) IN
    IF r.ok THEN [err |-> NoErr, args |-> <<r.id>>]
    ELSE [err |-> findRespError(input), args |-> <<0>>]

\* Conn.readResp(r, readBody, "<word> %d", &id) of the Sscanf revision after
\* readRawResp returned rr: [err, body, args]
readRespf(rr, op, word) ==
    IF rr.err # NoErr THEN [err |-> rr.err, body |-> NilBody, args |-> <<0>>]
    ELSE LET sc == scanf(rr.header, word) IN
         IF sc.err # NoErr
         THEN [err |-> ConnError(op, sc.err), body |-> NilBody, args |-> sc.args]
         ELSE [err |-> NoErr, body |-> rr.body, args |-> sc.args]

\* Conn.readResp(r, readBody, "<word>") of the Sscanf revision after
\* readRawResp returned rr: a format without a verb matches a header that
\* begins with it
readRespw(rr, op, word) ==
    IF rr.err # NoErr THEN [err |-> rr.err, body |-> NilBody, args |-> <<>>]
    ELSE IF HasPrefix(rr.header, word)
         THEN [err |-> NoErr, body |-> rr.body, args |-> <<>>]
         ELSE [err |-> ConnError(op, findRespError(rr.header)), body |-> NilBody,
               args |-> <<>>]

\* Tube.Put after readRawResp returned rr: [err, body, args], args = <<id>>
putResult(rr, op) ==
    IF rr.err # NoErr THEN [err |-> rr.err, body |-> NilBody, args |-> <<0>>]
    ELSE LET ins == sscanfUint(rr.header, wInserted) IN
         IF ins.ok THEN [err |-> NoErr, body |-> NilBody, args |-> <<ins.id>>]
         ELSE LET bur == scanf(rr.header, resBuried) IN
              IF bur.err = NoErr
              THEN [err |-> ConnError(op, ErrKind("ErrBuried")), body |-> NilBody,
                    args |-> bur.args]
              ELSE [err |-> bur.err, body |-> NilBody, args |-> bur.args]

------------------------------------------------------------------------------
(* The server: it processes the command lines it receives in order and    *)
(* answers each with one response                                          *)

\* index of the first CR LF in s after position i, 0 when absent
RECURSIVE IndexCRLFFrom(_, _)
IndexCRLFFrom(s, i) ==
    IF i + 1 >= Len(s) THEN 0
    ELSE IF s[i + 1] = "\r" /\ s[i + 2] = "\n" THEN i + 1
    ELSE IndexCRLFFrom(s, i + 1)

IndexCRLF(s) == IndexCRLFFrom(s, 0)

\* the space-separated tokens of a line
RECURSIVE Split(_)
Split(s) ==
    LET i == IndexByte(s, " ") IN
    IF i = 0 THEN <<s>> ELSE <<SubSeq(s, 1, i - 1)>> \o Split(Drop(s, i))

jobBody == <<"x">>

\* the responses the server may give to a target command
srvReplies(word) ==
    CASE word = opPut ->
            { wInserted \o space \o AppendUint(1) \o crnl,
              resBuried \o space \o AppendUint(7) \o crnl }
      [] word \in {opPeekReady, opPeekDelayed, opPeekBuried, opPeek} ->
            { wFound \o space \o AppendUint(1) \o space \o AppendUint(Len(jobBody))
                  \o crnl \o jobBody \o crnl,
              resNotFound \o crnl }
      [] word = opKick -> { wKicked \o space \o AppendUint(2) \o crnl }
      [] word = opReserve ->
            { wReserved \o space \o AppendUint(1) \o space \o AppendUint(Len(jobBody))
                  \o crnl \o jobBody \o crnl,
              resTimeout \o crnl }
      [] word = opDelete -> { wDeleted \o crnl, resNotFound \o crnl }
      [] word = opStatsTube -> { wOK \o space \o AppendUint(0) \o crnl \o crnl,
                                 resNotFound \o crnl }
      [] word = opPauseTube -> { wPaused \o crnl, resNotFound \o crnl }
      [] word = <<"r", "e", "l", "e", "a", "s", "e">> ->
            { <<"R", "E", "L", "E", "A", "S", "E", "D">> \o crnl }
      [] word = <<"b", "u", "r", "y">> -> { resBuried \o crnl }
      [] word = <<"k", "i", "c", "k", "-", "j", "o", "b">> -> { wKicked \o crnl }
      [] word = <<"t", "o", "u", "c", "h">> ->
            { <<"T", "O", "U", "C", "H", "E", "D">> \o crnl }
      [] word \in { <<"s", "t", "a", "t", "s">>, <<"s", "t", "a", "t", "s", "-", "j", "o", "b">>,
                    <<"l", "i", "s", "t", "-", "t", "u", "b", "e", "s">> } ->
            { wOK \o space \o AppendUint(4) \o crnl \o yamlHead \o crnl }
      [] OTHER -> { resUnknown \o crnl }

\* the server's watch set after "ignore name": the last watched tube stays
srvIgnore(ws, name) ==
    IF name \in ws /\ Cardinality(ws) < 2 THEN ws ELSE ws \ {name}

srvIgnoreReply(ws, name) ==
    IF name \in ws /\ Cardinality(ws) < 2
    THEN resNotIgnored \o crnl
    ELSE watching \o AppendUint(Cardinality(ws \ {name})) \o crnl


------------------------------------------------------------------------------
(* Response bodies: the YAML blocks of stats, stats-job, stats-tube and      *)
(* list-tubes                                                                 *)

\* parseList keeping an empty last part
parseListKeepsLast(dat) ==
    IF dat = NilBody THEN <<>>
    ELSE LET RECURSIVE split(_)
             split(s) ==
                 LET i == IndexByte(s, "\n") IN
                 IF i = 0 THEN <<s>> ELSE <<SubSeq(s, 1, i - 1)>> \o split(Drop(s, i))
             d == IF HasPrefix(dat[1], yamlHead) THEN Drop(dat[1], Len(yamlHead)) ELSE dat[1]
             parts == split(d)
         IN << [i \in 1..Len(parts) |->
                   IF HasPrefix(parts[i], <<"-", " ">>) THEN Drop(parts[i], 2)
                   ELSE parts[i]] >>

\* parseList(dat): <<>> is the nil slice, <<l>> the slice l
parseList(dat) ==
    IF dat = NilBody THEN <<>>
    ELSE LET RECURSIVE split(_)
             \* strings.Split(s, "\n")
             split(s) ==
                 LET i == IndexByte(s, "\n") IN
                 IF i = 0 THEN <<s>> ELSE <<SubSeq(s, 1, i - 1)>> \o split(Drop(s, i))
             d == IF HasPrefix(dat[1], yamlHead) THEN Drop(dat[1], Len(yamlHead)) ELSE dat[1]
             parts == split(d)
             lines == [i \in 1..Len(parts) |->
                          IF HasPrefix(parts[i], <<"-", " ">>) THEN Drop(parts[i], 2)
                          ELSE parts[i]]
             l == Len(lines)
         IN IF l > 0 /\ Len(lines[l]) = 0 THEN <<SubSeq(lines, 1, l - 1)>> ELSE <<lines>>

\* the loop of parseStats over the lines left: [err, nums, handed]. The
\* value of a known name is converted by strconv.ParseUint(value, 10, 64):
\* one or more decimal digits, no sign, at most MaxUint.
RECURSIVE parseStatsFrom(_, _, _, _, _)
parseStatsFrom(lines, numIdx, ns, handed, h) ==
    IF Len(lines) = 0 THEN [err |-> NoErr, nums |-> ns, handed |-> handed]
    ELSE LET eol == IndexByte(lines, "\n") IN
         IF eol = 0
         THEN [err |-> unknownRespError(lines), nums |-> ns, handed |-> handed]
         ELSE LET line == SubSeq(lines, 1, eol - 1)
                  rest == Drop(lines, eol)
                  at == { i \in 1..(Len(line) - 1) : line[i] = ":" /\ line[i + 1] = " " }
                  colon == IF at = {} THEN 0 ELSE CHOOSE i \in at : \A j \in at : i <= j
                  name == SubSeq(line, 1, colon - 1)
                  value == Drop(line, colon + 1)
                  v == digitsValue(value, 0)
              IN IF colon = 0
                 THEN [err |-> unknownRespError(line), nums |-> ns, handed |-> handed]
                 ELSE IF name \in DOMAIN numIdx
                 THEN IF value = <<>> \/ \E i \in 1..Len(value) : ~IsDigit(value[i])
                      THEN [err |-> [type |-> "NumError", num |-> value, err |-> "ErrSyntax"],
                            nums |-> ns, handed |-> handed]
                      ELSE IF v > MaxUint
                      THEN [err |-> [type |-> "NumError", num |-> value, err |-> "ErrRange"],
                            nums |-> ns, handed |-> handed]
                      ELSE parseStatsFrom(rest, numIdx, [ns EXCEPT ![numIdx[name]] = v],
                                          handed, h)
                 ELSE IF h
                 THEN parseStatsFrom(rest, numIdx, ns, Append(handed, <<name, value>>), h)
                 ELSE parseStatsFrom(rest, numIdx, ns, handed, h)

\* parseStats with the block marker left in place
parseStatsKeepsHead(dat, numIdx, nums, h) ==
    parseStatsFrom(dat, numIdx, nums, <<>>, h)

\* parseStats reporting the whole block in place of the line
parseStatsWholeText(dat, numIdx, nums, h) ==
    LET r == parseStatsFrom(IF HasPrefix(dat, yamlHead) THEN Drop(dat, Len(yamlHead)) ELSE dat,
                            numIdx, nums, <<>>, h)
    IN IF r.err.type = "unknownRespError" THEN [r EXCEPT !.err = unknownRespError(dat)]
       ELSE r

\* parseStats passing over a value that is no number
parseStatsIgnoresBadValue(dat, numIdx, nums, h) ==
    LET r == parseStatsFrom(IF HasPrefix(dat, yamlHead) THEN Drop(dat, Len(yamlHead)) ELSE dat,
                            numIdx, nums, <<>>, h)
    IN IF r.err.type = "NumError" THEN [r EXCEPT !.err = NoErr] ELSE r

\* parseStats(dat, numIdx, nums, h): [err, nums, handed]. numIdx maps a name
\* to the slot of nums it is stored in, h tells whether a handler is given,
\* handed lists the (name, value) pairs the handler is called with.
parseStats(dat, numIdx, nums, h) ==
    parseStatsFrom(IF HasPrefix(dat, yamlHead) THEN Drop(dat, Len(yamlHead)) ELSE dat,
                   numIdx, nums, <<>>, h)

\* what Conn.Stats, Conn.StatsJob, Conn.ListTubes and Tube.Stats (called on
\* the tube name) make of the result res of readResp: [err, val]. A record
\* of statistics is [name, nums, strs]: the numeric fields by slot and the
\* string fields by name; of the fields of each record the model keeps two
\* numeric ones and, where the operation passes a handler, two string ones.
\* The loop of Tube.Stats is the loop of parseStats without a handler. Other
\* operations have no value.
decodeBody(op, name, res) ==
    LET plan ==
            CASE op = <<"s", "t", "a", "t", "s">> ->
                    [numIdx |-> (<<"c", "u", "r", "r", "e", "n", "t", "-", "j", "o", "b", "s", "-", "r", "e", "a", "d", "y">> :> 1) @@ (<<"t", "o", "t", "a", "l", "-", "j", "o", "b", "s">> :> 2),
                     strs |-> {<<"v", "e", "r", "s", "i", "o", "n">>, <<"i", "d">>}, h |-> TRUE]
              [] op = <<"s", "t", "a", "t", "s", "-", "j", "o", "b">> ->
                    [numIdx |-> (<<"i", "d">> :> 1) @@ (<<"p", "r", "i">> :> 2),
                     strs |-> {<<"t", "u", "b", "e">>, <<"s", "t", "a", "t", "e">>}, h |-> TRUE]
              [] OTHER ->
                    [numIdx |-> (<<"c", "u", "r", "r", "e", "n", "t", "-", "j", "o", "b", "s", "-", "r", "e", "a", "d", "y">> :> 1) @@ (<<"t", "o", "t", "a", "l", "-", "j", "o", "b", "s">> :> 2),
                     strs |-> {}, h |-> FALSE]
        zero == [name |-> <<>>, nums |-> <<0, 0>>, strs |-> [s \in plan.strs |-> <<>>]]
        p == parseStats(res.body[1], plan.numIdx, <<0, 0>>, plan.h)
        RECURSIVE handle(_, _)
        \* the handler's switch on the name, applied to the pairs in order
        handle(handed, strs) ==
            IF handed = <<>> THEN strs
            ELSE handle(Tail(handed),
                        IF Head(handed)[1] \in plan.strs
                        THEN [strs EXCEPT ![Head(handed)[1]] = Head(handed)[2]]
                        ELSE strs)
    IN IF op = <<"l", "i", "s", "t", "-", "t", "u", "b", "e", "s">>
       THEN [err |-> res.err, val |-> parseList(res.body)]
       ELSE IF op \notin {<<"s", "t", "a", "t", "s">>, <<"s", "t", "a", "t", "s", "-", "j", "o", "b">>, opStatsTube}
       THEN [err |-> res.err, val |-> <<>>]
       ELSE IF res.err # NoErr THEN [err |-> res.err, val |-> zero]
       ELSE IF p.err # NoErr THEN [err |-> p.err, val |-> zero]
       ELSE [err |-> NoErr,
             val |-> [name |-> IF op = opStatsTube THEN name ELSE <<>>,
                      nums |-> p.nums,
                      strs |-> handle(p.handed, zero.strs)]]

------------------------------------------------------------------------------
(* State *)

CallNone ==
    [kind |-> "none", op |-> <<>>, s |-> <<>>, t |-> NilTube, ts |-> NilTubeSet, body |-> NilBody,
     args |-> <<>>, recon |-> <<>>, cmd |-> <<>>, err |-> NoErr,
     readBody |-> FALSE, word |-> <<>>, nargs |-> 0]

RetNone ==
    [err |-> NoErr, body |-> NilBody, args |-> <<>>, val |-> <<>>, line |-> <<>>,
     done |-> FALSE]

SeenNone ==
    [word |-> <<>>, used |-> <<>>, watched |-> {}, t |-> NilTube, ts |-> NilTubeSet,
     reply |-> <<>>]

\* the operations with what they read: the decoding (scan: Conn.scan,
\* scanf: "<word> %d", scanfw: "<word>", put: Tube.Put), the command word,
\* the expected word, the integers scanned, and whether a body is read
PendingOps ==
    LET o(kind, op, word, nargs, readBody) ==
            [CallNone EXCEPT !.kind = kind, !.op = op, !.word = word, !.nargs = nargs,
                             !.readBody = readBody]
    IN { o("scan", opDelete, wDeleted, 0, FALSE),
         o("scan", <<"r", "e", "l", "e", "a", "s", "e">>,
           <<"R", "E", "L", "E", "A", "S", "E", "D">>, 0, FALSE),
         o("scan", <<"b", "u", "r", "y">>, resBuried, 0, FALSE),
         o("scan", <<"k", "i", "c", "k", "-", "j", "o", "b">>, wKicked, 0, FALSE),
         o("scan", <<"t", "o", "u", "c", "h">>, <<"T", "O", "U", "C", "H", "E", "D">>, 0, FALSE),
         o("scan", opPeek, wFound, 1, TRUE),
         o("scan", <<"s", "t", "a", "t", "s">>, wOK, 0, TRUE),
         o("scan", <<"s", "t", "a", "t", "s", "-", "j", "o", "b">>, wOK, 0, TRUE),
         o("scan", <<"l", "i", "s", "t", "-", "t", "u", "b", "e", "s">>, wOK, 0, TRUE),
         o("put", opPut, wInserted, 1, FALSE),
         o("scanf", opPeekReady, wFound, 1, TRUE),
         o("scanf", opPeekDelayed, wFound, 1, TRUE),
         o("scanf", opPeekBuried, wFound, 1, TRUE),
         o("scanf", opKick, wKicked, 1, FALSE),
         o("scanfw", opStatsTube, wOK, 0, TRUE),
         o("scanfw", opPauseTube, wPaused, 0, FALSE) }

\* a connection that starts with nothing watched
InitWatchesNothing ==
    /\ used = nDefault
    /\ watched = {}
    /\ w = <<>>
    /\ werr = NoErr
    /\ buf = <<>>
    /\ held = <<>>
    /\ pipe = NewPipeline
    /\ sin = <<>>
    /\ sout = <<>>
    /\ srvUsed = nDefault
    /\ srvWatched = {nDefault}
    /\ pc = "idle"
    /\ call = CallNone
    /\ ret = RetNone
    /\ intents = <<>>
    /\ seen = SeenNone
    /\ nops = 0

\* NewConn
Init ==
    /\ used = nDefault
    /\ watched = {nDefault}
    /\ w = <<>>
    /\ werr = NoErr
    /\ buf = <<>>
    /\ held = <<>>
    /\ pipe = NewPipeline
    /\ sin = <<>>
    /\ sout = <<>>
    /\ srvUsed = nDefault
    /\ srvWatched = {nDefault}
    /\ pc = "idle"
    /\ call = CallNone
    /\ ret = RetNone
    /\ intents = <<>>
    /\ seen = SeenNone
    /\ nops = 0

------------------------------------------------------------------------------
(* Client: the write half of an operation *)

\* cmdTube going on to the read after a flush that failed
cmdTubeReadsAfterFailure(kind, t, ts, body, op, s, args, readBody, word, nargs, kord, iord) ==
    /\ pc = "idle"
    /\ nops < MaxOps
    /\ LET st == adjustTubes(t, ts, kord, iord,
                     [used |-> used, watched |-> watched, out |-> <<>>, err |-> NoErr])
           cb == cmdBytes(body, op, s, args)
           c0 == [kind |-> kind, op |-> op, s |-> s, t |-> t, ts |-> ts, body |-> body,
                  args |-> args, recon |-> st.out, cmd |-> <<>>, err |-> st.err,
                  readBody |-> readBody, word |-> word, nargs |-> nargs]
       IN /\ used' = st.used
          /\ watched' = st.watched
          /\ nops' = nops + 1
          /\ IF st.err # NoErr
             THEN /\ w' = IF werr = NoErr THEN w \o st.out ELSE w
                  /\ call' = c0
                  /\ ret' = [RetNone EXCEPT !.err = st.err, !.done = TRUE]
                  /\ UNCHANGED <<werr, sin, pc, intents>>
             ELSE \E failed \in (IF werr = NoErr THEN BOOLEAN ELSE {TRUE}) :
                      IF failed
                      THEN /\ werr' = IF werr = NoErr THEN [type |-> "ioError"] ELSE werr
                           /\ w' = <<>>
                           /\ call' = [c0 EXCEPT !.err = ConnError(op, werr')]
                           /\ ret' = RetNone
                           /\ pc' = "wait"
                           /\ UNCHANGED <<sin, intents>>
                      ELSE /\ w' = <<>>
                           /\ sin' = sin \o w \o st.out \o cb
                           /\ call' = [c0 EXCEPT !.cmd = cb]
                           /\ ret' = RetNone
                           /\ pc' = "wait"
                           /\ intents' = Append(intents, [t |-> t, ts |-> ts])
                           /\ UNCHANGED werr
    /\ seen' = SeenNone
    /\ UNCHANGED <<buf, held, pipe, sout, srvUsed, srvWatched>>

\* Conn.cmdTube(t, ts, body, op, s, args...) called by the operation kind,
\* which will read its response with (readBody, word, nargs). The flush may
\* fail; the writer then keeps the error: it fails every flush with it, so
\* that no flush sends the bytes it holds, and drops what is written to it.
cmdTube(kind, t, ts, body, op, s, args, readBody, word, nargs, kord, iord) ==
    /\ pc = "idle"
    /\ nops < MaxOps
    /\ LET st == adjustTubes(t, ts, kord, iord,
                     [used |-> used, watched |-> watched, out |-> <<>>, err |-> NoErr])
           cb == cmdBytes(body, op, s, args)
           c0 == [kind |-> kind, op |-> op, s |-> s, t |-> t, ts |-> ts, body |-> body,
                  args |-> args, recon |-> st.out, cmd |-> <<>>, err |-> st.err,
                  readBody |-> readBody, word |-> word, nargs |-> nargs]
       IN /\ used' = st.used
          /\ watched' = st.watched
          /\ nops' = nops + 1
          /\ IF st.err # NoErr
             THEN /\ w' = IF werr = NoErr THEN w \o st.out ELSE w
                  /\ call' = c0
                  /\ ret' = [RetNone EXCEPT !.err = st.err, !.done = TRUE]
                  /\ UNCHANGED <<werr, sin, pc, intents>>
             ELSE \E failed \in (IF werr = NoErr THEN BOOLEAN ELSE {TRUE}) :
                      IF failed
                      THEN /\ werr' = IF werr = NoErr THEN [type |-> "ioError"] ELSE werr
                           /\ w' = <<>>
                           /\ call' = [c0 EXCEPT !.err = ConnError(op, werr')]
                           /\ ret' = [RetNone EXCEPT !.err = ConnError(op, werr'),
                                                     !.done = TRUE]
                           /\ UNCHANGED <<sin, pc, intents>>
                      ELSE /\ w' = <<>>
                           /\ sin' = sin \o w \o st.out \o cb
                           /\ call' = [c0 EXCEPT !.cmd = cb]
                           /\ ret' = RetNone
                           /\ pc' = "wait"
                           /\ intents' = Append(intents, [t |-> t, ts |-> ts])
                           /\ UNCHANGED werr
    /\ seen' = SeenNone
    /\ UNCHANGED <<buf, held, pipe, sout, srvUsed, srvWatched>>

\* Conn.cmd
cmd(kind, t, ts, body, op, args, readBody, word, nargs, kord, iord) ==
    cmdTube(kind, t, ts, body, op, <<>>, args, readBody, word, nargs, kord, iord)

\* the (body, <<pri, delay, ttr>>) Put is invoked with
PutInputs ==
    { << <<(<<"f", "o", "o">>)>>, <<0, 0, 0>> >>,
      << <<(<<>>)>>, <<1, 10, 120>> >>,
      << NilBody, <<0, 0, 0>> >> }
\* the job ids, kick bounds, and reserve timeouts and pause delays (in
\* seconds) operations are invoked with
JobIds == {1}
KickBounds == {10}
ReserveTimeouts == {1}

\* Tube.Put(body, pri, delay, ttr)
Put ==
    /\ pc = "idle"
    /\ \E name \in TubeNames, in \in PutInputs :
           cmd("put", TubeOf(name), NilTubeSet, in[1], opPut, in[2],
               FALSE, wInserted, 1, <<>>, <<>>)

\* Tube.PeekReady()
PeekReady ==
    /\ pc = "idle"
    /\ \E name \in TubeNames :
           cmd("scanf", TubeOf(name), NilTubeSet, NilBody, opPeekReady, <<>>,
               TRUE, wFound, 1, <<>>, <<>>)

\* Tube.PeekDelayed()
PeekDelayed ==
    /\ pc = "idle"
    /\ \E name \in TubeNames :
           cmd("scanf", TubeOf(name), NilTubeSet, NilBody, opPeekDelayed, <<>>,
               TRUE, wFound, 1, <<>>, <<>>)

\* Tube.PeekBuried()
PeekBuried ==
    /\ pc = "idle"
    /\ \E name \in TubeNames :
           cmd("scanf", TubeOf(name), NilTubeSet, NilBody, opPeekBuried, <<>>,
               TRUE, wFound, 1, <<>>, <<>>)

\* Tube.Kick(bound)
Kick ==
    /\ pc = "idle"
    /\ \E name \in TubeNames, bound \in KickBounds :
           cmd("scanf", TubeOf(name), NilTubeSet, NilBody, opKick, <<bound>>,
               FALSE, wKicked, 1, <<>>, <<>>)

\* TubeSet.Reserve(timeout): kord and iord are the orders in which the range
\* loops of adjustTubes visit the keys they act on
Reserve ==
    /\ pc = "idle"
    /\ \E ts \in TubeSets, timeout \in ReserveTimeouts :
           \E kord \in Orders(DOMAIN ts[1] \ watched),
              iord \in Orders({ s \in watched \cup DOMAIN ts[1] : ~Lookup(ts[1], s) }) :
               cmd("scan", NilTube, ts, NilBody, opReserve, <<timeout>>,
                   TRUE, wReserved, 1, kord, iord)

\* Conn.Delete(id)
Delete ==
    /\ pc = "idle"
    /\ \E id \in JobIds :
           cmd("scan", NilTube, NilTubeSet, NilBody, opDelete, <<id>>,
               FALSE, wDeleted, 0, <<>>, <<>>)

\* Conn.Peek(id)
Peek ==
    /\ pc = "idle"
    /\ \E id \in JobIds :
           cmd("scan", NilTube, NilTubeSet, NilBody, opPeek, <<id>>,
               TRUE, wFound, 1, <<>>, <<>>)

\* Tube.Stats(): the name is passed to the command as it is
StatsTube ==
    /\ pc = "idle"
    /\ \E name \in TubeNames :
           cmdTube("scanfw", NilTube, NilTubeSet, NilBody, opStatsTube, name, <<>>,
                   TRUE, wOK, 0, <<>>, <<>>)

\* Tube.Pause(d): the name is passed to the command as it is
PauseTube ==
    /\ pc = "idle"
    /\ \E name \in TubeNames, d \in ReserveTimeouts :
           cmdTube("scanfw", NilTube, NilTubeSet, NilBody, opPauseTube, name, <<d>>,
                   FALSE, wPaused, 0, <<>>, <<>>)

\* Conn.Release(id, pri, delay), Conn.Bury(id, pri), Conn.KickJob(id),
\* Conn.Touch(id), Conn.Stats(), Conn.StatsJob(id), Conn.ListTubes(): each
\* calls cmd with no Tube and no TubeSet, its word and its arguments, and
\* reads the response of PendingOps
ConnCommand ==
    /\ pc = "idle"
    /\ \E c \in { o \in PendingOps : o.kind = "scan" /\ o.op \notin {opDelete, opPeek} },
          id \in JobIds, pri \in KickBounds, delay \in ReserveTimeouts :
           cmd("scan", NilTube, NilTubeSet, NilBody, c.op,
               CASE c.op = <<"r", "e", "l", "e", "a", "s", "e">> -> <<id, pri, delay>>
                 [] c.op = <<"b", "u", "r", "y">> -> <<id, pri>>
                 [] c.op \in {<<"k", "i", "c", "k", "-", "j", "o", "b">>,
                              <<"t", "o", "u", "c", "h">>,
                              <<"s", "t", "a", "t", "s", "-", "j", "o", "b">>} -> <<id>>
                 [] OTHER -> <<>>,
               c.readBody, c.word, c.nargs, <<>>, <<>>)

------------------------------------------------------------------------------
(* Client: the read half of the operation in progress *)

Recv ==
    /\ pc = "wait"
    /\ \E rr \in {readRawResp(sout, call.op, call.readBody)} :
       /\ rr.avail
       /\ \E res \in {CASE call.kind = "put" -> putResult(rr, call.op)
                         [] call.kind = "scanf" -> readRespf(rr, call.op, call.word)
                         [] call.kind = "scanfw" -> readRespw(rr, call.op, call.word)
                         [] OTHER -> readRespArgs(rr, call.op, call.word, call.nargs)},
             rd \in {readInto(buf, held, sout, call.readBody)} :
          LET dec == decodeBody(call.op, call.s, res)
          IN /\ sout' = rr.rest
             /\ buf' = rd.buf
             /\ held' = holdBody(rd.held, call.readBody /\ ~rr.panic,
                                 call.op \notin {opPeek, opPeekReady, opPeekDelayed,
                                                 opPeekBuried, opReserve}, res)
             /\ IF rr.panic
                THEN /\ pc' = "panic"
                     /\ ret' = RetNone
                ELSE /\ pc' = "idle"
                     /\ ret' = [err |-> dec.err, body |-> res.body, args |-> res.args,
                                val |-> dec.val, line |-> rr.line, done |-> TRUE]
    /\ UNCHANGED <<used, watched, w, werr, pipe, sin, srvUsed, srvWatched, call, intents, seen, nops>>

------------------------------------------------------------------------------
(* Server steps: one command line each *)

\* the first command line in sin: [any, toks, rest]
srvFirst ==
    LET i == IndexCRLF(sin) IN
    IF i = 0 THEN [any |-> FALSE, toks |-> <<>>, rest |-> <<>>]
    ELSE [any |-> TRUE, toks |-> Split(SubSeq(sin, 1, i - 1)), rest |-> Drop(sin, i + 1)]

IsRecon(toks) == toks[1] \in {cmdUse, cmdWatch, cmdIgnore} /\ Len(toks) = 2

SrvUse ==
    LET n == srvFirst IN
    /\ n.any
    /\ n.toks[1] = cmdUse /\ Len(n.toks) = 2
    /\ srvUsed' = n.toks[2]
    /\ sin' = n.rest
    /\ sout' = sout \o using \o n.toks[2] \o crnl
    /\ UNCHANGED <<used, watched, w, werr, buf, held, pipe, srvWatched, pc, call, ret, intents, seen, nops>>

SrvWatch ==
    LET n == srvFirst IN
    /\ n.any
    /\ n.toks[1] = cmdWatch /\ Len(n.toks) = 2
    /\ srvWatched' = srvWatched \cup {n.toks[2]}
    /\ sin' = n.rest
    /\ sout' = sout \o watching \o AppendUint(Cardinality(srvWatched')) \o crnl
    /\ UNCHANGED <<used, watched, w, werr, buf, held, pipe, srvUsed, pc, call, ret, intents, seen, nops>>

SrvIgnore ==
    LET n == srvFirst IN
    /\ n.any
    /\ n.toks[1] = cmdIgnore /\ Len(n.toks) = 2
    /\ srvWatched' = srvIgnore(srvWatched, n.toks[2])
    /\ sin' = n.rest
    /\ sout' = sout \o srvIgnoreReply(srvWatched, n.toks[2])
    /\ UNCHANGED <<used, watched, w, werr, buf, held, pipe, srvUsed, pc, call, ret, intents, seen, nops>>

\* the bytes of a job that follow a well-formed put line, with their CR LF
srvPutBytes(toks) ==
    IF toks[1] = opPut /\ Len(toks) = 5 THEN parseUint(toks[5])[1] + 2 ELSE 0

SrvTarget ==
    LET n == srvFirst IN
    /\ n.any
    /\ ~IsRecon(n.toks)
    /\ Len(n.rest) >= srvPutBytes(n.toks)
    /\ sin' = Drop(n.rest, srvPutBytes(n.toks))
    /\ \E reply \in (IF n.toks[1] = opPut /\ Len(n.toks) # 5
                     THEN { resBadFormat \o crnl }
                     ELSE srvReplies(n.toks[1])) :
           /\ sout' = sout \o reply
           /\ seen' = [word |-> n.toks[1], used |-> srvUsed, watched |-> srvWatched,
                       t |-> Head(intents).t, ts |-> Head(intents).ts, reply |-> reply]
    /\ intents' = Tail(intents)
    /\ UNCHANGED <<used, watched, w, werr, buf, held, pipe, srvUsed, srvWatched, pc, call, ret, nops>>

------------------------------------------------------------------------------

Next ==
    \/ Put
    \/ PeekReady
    \/ PeekDelayed
    \/ PeekBuried
    \/ Kick
    \/ Reserve
    \/ Delete
    \/ Peek
    \/ StatsTube
    \/ PauseTube
    \/ ConnCommand
    \/ Recv
    \/ SrvUse
    \/ SrvWatch
    \/ SrvIgnore
    \/ SrvTarget

Spec == Init /\ [][Next]_vars

------------------------------------------------------------------------------
(* Properties *)

\* the lines of a block of CR LF terminated lines
RECURSIVE SplitCRLF(_)
SplitCRLF(bytes) ==
    LET i == IndexCRLF(bytes) IN
    IF i = 0 THEN (IF bytes = <<>> THEN <<>> ELSE <<bytes>>)
    ELSE <<SubSeq(bytes, 1, i - 1)>> \o SplitCRLF(Drop(bytes, i + 1))

\* how many of the lines are the line l
Count(lines, l) == Cardinality({ i \in 1..Len(lines) : lines[i] = l })

\* the names a TubeSet intends to watch
Intended(ts) == { s \in DOMAIN ts[1] : ts[1][s] }

\* the TubeSet stands for a set of names, as NewTubeSet builds it
IsSetIntent(ts) == \A s \in DOMAIN ts[1] : ts[1][s]

\* a step in which an operation is invoked
Invoked == nops' = nops + 1

\* C1: the server's used tube, when it processes the target command of an
\* operation invoked on a Tube, is that Tube's Name; the operation wrote
\* "use <name>" exactly when the name differed from the remembered used name,
\* and the remembered used name is then the Tube's Name.
C1_UseBeforeTarget ==
    [][ /\ (seen'.t # NilTube => seen'.used = seen'.t[1])
        /\ (Invoked /\ call'.t # NilTube /\ call'.err = NoErr =>
               /\ call'.recon = (IF call'.t[1] # used
                                 THEN cmdUse \o space \o call'.t[1] \o crnl
                                 ELSE <<>>)
               /\ used' = call'.t[1]) ]_vars

\* the server has processed a put invoked on the tube foo, after "use foo"
C1_Witness ==
    /\ seen.word = opPut
    /\ seen.t = TubeOf(nFoo)
    /\ seen.used = nFoo
    /\ call.recon = cmdUse \o space \o nFoo \o crnl

\* C2: after reconciliation the remembered watched set is the intended set,
\* and the server's watch set when it processes the target command is the
\* intended set.
C2_WatchedIsIntended ==
    /\ (call.ts # NilTubeSet /\ IsSetIntent(call.ts) /\ call.err = NoErr =>
           watched = Intended(call.ts))
    /\ (seen.ts # NilTubeSet /\ IsSetIntent(seen.ts) =>
           seen.watched = Intended(seen.ts))

RECURSIVE FirstNonAck(_)
FirstNonAck(stream) ==
    LET lines == SplitCRLF(stream) IN
    IF lines = <<>> THEN <<>>
    ELSE IF HasPrefix(Head(lines), using) \/ HasPrefix(Head(lines), watching)
         THEN FirstNonAck(Drop(stream, Len(Head(lines)) + 2))
         ELSE Head(lines)

\* C4: the line an operation treats as its response does not begin with
\* "USING " or "WATCHING ": it is the first line of the unread stream that
\* is no acknowledgement.
C4_AcksNeverSurface ==
    [][ pc = "wait" /\ pc' = "idle" =>
            /\ ~HasPrefix(ret'.line, using)
            /\ ~HasPrefix(ret'.line, watching)
            /\ ret'.line = FirstNonAck(sout) ]_vars

\* a reserve skipped the acknowledgements of a watch and of an ignore
C4_Witness ==
    /\ ret.done
    /\ call.op = opReserve
    /\ Len(SplitCRLF(call.recon)) = 2
    /\ HasPrefix(ret.line, wReserved)
    /\ ret.err = NoErr

\* the first line of a response
FirstLine(reply) == SubSeq(reply, 1, IndexCRLF(reply) - 1)

\* C5: when an operation returns from its read, it has consumed exactly the
\* responses to the command lines sent: nothing is left unprocessed or
\* unread, and the line it took is the server's response to its own command.
C5_ReadsOwnResponse ==
    ret.done /\ call.err = NoErr =>
        /\ sin = <<>>
        /\ sout = <<>>
        /\ intents = <<>>
        /\ ret.line = FirstLine(seen.reply)

\* C6: an operation whose intent equals that of the operation before it,
\* which completed reconciliation, writes no use, watch or ignore line and
\* leaves the remembered used name and watched set unchanged.
C6_Idempotent ==
    [][ /\ Invoked
        /\ call.kind # "none" /\ call.err = NoErr
        /\ call'.t = call.t /\ call'.ts = call.ts
        /\ (call.ts # NilTubeSet => IsSetIntent(call.ts))
        => /\ call'.recon = <<>>
           /\ call'.err.type # "NameError"
           /\ used' = used
           /\ watched' = watched ]_vars

\* two reserves in a row on the TubeSet {foo, bar}
C6_Witness ==
    /\ nops = 2
    /\ call.ts = NewTubeSet({nFoo, nBar})
    /\ call.recon = <<>>
    /\ watched = {nFoo, nBar}

\* C7: one "watch n" for each n intended and not remembered, one "ignore n"
\* for each n remembered and not intended, no line for an n both remembered
\* and intended; for a set of names these are all the lines written.
C7_MinimalDiff ==
    [][ Invoked /\ call'.ts # NilTubeSet /\ call'.err = NoErr =>
            LET lines == SplitCRLF(call'.recon)
                I == Intended(call'.ts)
                W == watched
                watchLine(n) == cmdWatch \o space \o n
                ignoreLine(n) == cmdIgnore \o space \o n
            IN /\ \A n \in I \ W :
                      Count(lines, watchLine(n)) = 1 /\ Count(lines, ignoreLine(n)) = 0
               /\ \A n \in W \ I :
                      Count(lines, ignoreLine(n)) = 1 /\ Count(lines, watchLine(n)) = 0
               /\ \A n \in W \cap I :
                      Count(lines, watchLine(n)) = 0 /\ Count(lines, ignoreLine(n)) = 0
               /\ (IsSetIntent(call'.ts) =>
                      Len(lines) = Cardinality(I \ W) + Cardinality(W \ I)) ]_vars

\* watching {default, foo} and then {foo, bar} wrote "watch bar" and
\* "ignore default"
C7_Witness ==
    /\ nops = 2
    /\ call.ts = NewTubeSet({nFoo, nBar})
    /\ call.recon = cmdWatch \o space \o nBar \o crnl \o cmdIgnore \o space \o nDefault \o crnl

\* C8: the remembered watched set is never empty.
C8_WatchedNonEmpty == watched # {}

\* C9: the remembered used name is never empty.
C9_UsedNonEmpty == Len(used) > 0

\* an operation on a Tube with the empty Name returned the name error
C9_Witness ==
    /\ call.t = TubeOf(nEmpty)
    /\ ret.err = NameError(nEmpty, "ErrEmpty")
    /\ Len(used) > 0

\* the decimal numeral of n: the digit string without a leading zero whose
\* value is n
NumeralValue(d) ==
    LET RECURSIVE val(_)
        val(k) == IF k = 0 THEN 0 ELSE val(k - 1) * 10 + d[k]
    IN val(Len(d))
Numeral(n) ==
    LET d == CHOOSE x \in UNION { [1..k -> 0..9] : k \in 1..3 } :
                 NumeralValue(x) = n /\ (Len(x) = 1 \/ x[1] # 0)
    IN [i \in 1..Len(d) |-> Digits[d[i] + 1]]

\* C10: the bytes of a command are the word, each argument after one space,
\* for a body a space, its length, CR LF and its bytes, then CR LF; they are
\* flushed with what was written before them.
C10_CommandBytes ==
    [][ Invoked /\ call'.err = NoErr =>
            LET RECURSIVE argBytes(_)
                argBytes(as) ==
                    IF as = <<>> THEN <<>>
                    ELSE <<" ">> \o Numeral(Head(as)) \o argBytes(Tail(as))
                framed == IF call'.body = NilBody THEN <<>>
                          ELSE <<" ">> \o Numeral(Len(call'.body[1])) \o <<"\r", "\n">>
                                   \o call'.body[1]
                named == IF call'.s = <<>> THEN <<>> ELSE <<" ">> \o call'.s
            IN /\ call'.cmd = call'.op \o named \o argBytes(call'.args) \o framed
                                 \o <<"\r", "\n">>
               /\ sin' = sin \o w \o call'.recon \o call'.cmd
               /\ w' = <<>> ]_vars

\* put of "foo" with 0 0 0 wrote "put 0 0 0 3\r\nfoo\r\n"
C10_Witness ==
    /\ call.op = opPut
    /\ call.cmd = <<"p", "u", "t", " ", "0", " ", "0", " ", "0", " ", "3", "\r", "\n", "f", "o", "o", "\r", "\n">>

\* delete 1 wrote "delete 1\r\n"
C10_WitnessDelete ==
    /\ call.op = opDelete
    /\ call.cmd = <<"d", "e", "l", "e", "t", "e", " ", "1", "\r", "\n">>

\* C20: an operation invoked with an invalid queue name - the name of the
\* Tube it is invoked on, a name of the TubeSet it is invoked on, or the
\* name Stats or Pause puts in its command - returns a name error and sends
\* no bytes.
C20_NamesValidatedFirst ==
    [][ (/\ Invoked
         /\ \/ call'.t # NilTube /\ checkName(call'.t[1]) # NoErr
            \/ call'.ts # NilTubeSet /\ \E n \in DOMAIN call'.ts[1] : checkName(n) # NoErr
            \/ call'.op \in {opStatsTube, opPauseTube} /\ checkName(call'.s) # NoErr)
        => /\ ret'.done
           /\ ret'.err.type = "NameError"
           /\ sin' = sin ]_vars

\* C21: a new connection remembers the used name "default" and the watched
\* set {"default"}, so the first operation, when it is on the Tube "default"
\* or on the TubeSet {"default"} and is sent, puts on the wire its target
\* command line and nothing else: no use, watch or ignore line.
C21_FirstOpBare ==
    [][ LET d == <<"d", "e", "f", "a", "u", "l", "t">> IN
        (Invoked /\ nops = 0 /\ call'.err = NoErr
            /\ (call'.t = <<d>> \/ call'.ts = <<(d :> TRUE)>>))
        => /\ used = d /\ watched = {d}
           /\ call'.recon = <<>>
           /\ sin' = cmdBytes(call'.body, call'.op, call'.s, call'.args)
           /\ used' = d /\ watched' = {d} ]_vars

\* the first operation was a reserve on the TubeSet {"default"} and only its
\* command line was sent
C21_Witness ==
    /\ nops = 1 /\ pc = "wait"
    /\ call.ts = NewTubeSet({nDefault})
    /\ call.recon = <<>>
    /\ sin = opReserve \o <<" ", "1", "\r", "\n">>

\* the first operation was a put on the Tube "default" and its command line
\* and body were all that was sent
C21_WitnessTube ==
    /\ nops = 1 /\ pc = "wait"
    /\ call.t = TubeOf(nDefault) /\ call.op = opPut
    /\ sin = opPut \o <<" ", "0", " ", "0", " ", "0", " ", "3", "\r", "\n",
                        "f", "o", "o", "\r", "\n">>

\* C25: an operation whose flush fails returns at once the ConnError that
\* holds its command word and the error of the write: it does not go on to
\* read, and neither it nor a later operation sends the command again.
C25_FlushFailure ==
    [][ /\ (Invoked /\ werr' # NoErr /\ call'.err.type # "NameError")
           => /\ ret'.done
              /\ ret'.err = [type |-> "ConnError", op |-> call'.op,
                             err |-> [type |-> "ioError"]]
              /\ pc' = "idle"
              /\ sin' = sin /\ sout' = sout
        /\ werr # NoErr => (pc' = pc /\ Len(sin') <= Len(sin)) ]_vars

\* the flush of a delete failed: the caller has the error, nothing was sent
C25_Witness ==
    /\ nops = 1 /\ pc = "idle"
    /\ call.op = opDelete
    /\ werr # NoErr
    /\ ret.done
    /\ ret.err = ConnError(opDelete, werr)
    /\ sin = <<>>

\* a put after a flush that failed fails with the same error
C25_WitnessLater ==
    /\ nops = 2 /\ pc = "idle"
    /\ call.op = opPut
    /\ ret.err = ConnError(opPut, [type |-> "ioError"])
    /\ sin = <<>> /\ w = <<>>

\* C27: delete, release, bury, kick-job, touch, peek, stats, stats-job,
\* list-tubes, stats-tube and pause-tube write no use, watch or ignore line
\* and leave the remembered used name and watched set as they are, whatever
\* these are: what the operation writes is its command alone.
C27_ConnOpsLeaveSession ==
    [][ (Invoked /\ call'.op \in
            { opDelete, opPeek, opStatsTube, opPauseTube,
              <<"r", "e", "l", "e", "a", "s", "e">>, <<"b", "u", "r", "y">>,
              <<"k", "i", "c", "k", "-", "j", "o", "b">>, <<"t", "o", "u", "c", "h">>,
              <<"s", "t", "a", "t", "s">>, <<"s", "t", "a", "t", "s", "-", "j", "o", "b">>,
              <<"l", "i", "s", "t", "-", "t", "u", "b", "e", "s">> })
        => /\ call'.recon = <<>>
           /\ used' = used
           /\ watched' = watched
           /\ call'.err = NoErr => sin' = sin \o w \o call'.cmd
           /\ call'.err = NoErr
                  => SplitCRLF(call'.cmd) = <<SubSeq(call'.cmd, 1, Len(call'.cmd) - 2)>>
           /\ HasPrefix(call'.cmd, call'.op) \/ call'.err # NoErr ]_vars

\* a touch was invoked after a reserve on {foo} and a use of bar: nothing
\* but its command was written and the session is as it was
C27_Witness ==
    /\ nops = 2 /\ pc = "wait"
    /\ call.op = <<"t", "o", "u", "c", "h">>
    /\ call.recon = <<>>
    /\ call.cmd = <<"t", "o", "u", "c", "h", " ", "1", "\r", "\n">>
    /\ watched = {nFoo}

\* C39: the lines one reconciliation writes for a TubeSet, whatever the
\* values of its map, hold at most one line per name: no name has a watch
\* line and an ignore line among them
C39_OneLinePerName ==
    LET lines == SplitCRLF(call.recon) IN
    call.ts # NilTubeSet =>
        \A i, j \in 1..Len(lines) :
            (i # j /\ Split(lines[i])[1] \in {cmdWatch, cmdIgnore}
                   /\ Split(lines[j])[1] \in {cmdWatch, cmdIgnore})
            => Split(lines[i])[2] # Split(lines[j])[2]

\* C37: a put of a job body of zero length, given as an empty or as a nil
\* byte slice, has written 'put <pri> <delay> <ttr> 0', the line terminator,
\* the empty body and the line terminator
C37_PutFramesEmptyBody ==
    (/\ call.op = opPut /\ call.err = NoErr /\ call.cmd # <<>>
     /\ (call.body = NilBody \/ call.body = <<(<<>>)>>))
    => call.cmd = print(opPut, <<>>, call.args) \o space \o <<"0">> \o crnl \o crnl

\* C28: the lines an operation writes before its command are use lines, then
\* watch lines, then ignore lines: no watch line follows an ignore line. When
\* the flush succeeds they reach the server in that order, followed by the
\* command line, in the one flush. When the server processes an ignore line
\* written for a TubeSet that intends at least one name, the line does not
\* name the only tube of its watch set: the set stays non-empty and the line
\* is not refused. From {default} to {foo} the operation writes "watch foo",
\* "ignore default" and the reserve command.
C28_WatchBeforeIgnore ==
    /\ [](LET lines == SplitCRLF(call.recon) IN
           \A i \in 1..Len(lines) :
               LET kind == Split(lines[i])[1] IN
               /\ kind \in {cmdUse, cmdWatch, cmdIgnore}
               /\ i > 1 => kind # cmdUse
               /\ i > 1 /\ Split(lines[i - 1])[1] = cmdIgnore => kind = cmdIgnore)
    /\ [][ /\ (Invoked =>
              /\ (call'.err = NoErr => sin' = sin \o w \o call'.recon \o call'.cmd)
              /\ (call'.err = NoErr /\ watched = {nDefault}
                      /\ call'.ts = NewTubeSet({nFoo}) =>
                    /\ call'.recon = printLine(cmdWatch, nFoo, <<>>)
                                     \o printLine(cmdIgnore, nDefault, <<>>)
                    /\ HasPrefix(call'.cmd, opReserve)))
        /\ (Len(sin') < Len(sin) /\ HasPrefix(sin, cmdIgnore \o space)
               /\ intents # <<>> /\ Head(intents).ts # NilTubeSet
               /\ Intended(Head(intents).ts) # {} =>
              LET name == srvFirst.toks[2] IN
              /\ srvWatched # {name}
              /\ srvWatched' = srvWatched \ {name}
              /\ srvWatched' # {}
              /\ HasPrefix(Drop(sout', Len(sout)), watching)) ]_vars

\* the server has processed "watch foo" and "ignore default" of a reserve on
\* {foo}: it watches foo alone and the reserve command is what it reads next
C28_Witness ==
    /\ nops = 1 /\ pc = "wait"
    /\ call.ts = NewTubeSet({nFoo})
    /\ call.recon = printLine(cmdWatch, nFoo, <<>>) \o printLine(cmdIgnore, nDefault, <<>>)
    /\ srvWatched = {nFoo}
    /\ sin = call.cmd
    /\ HasPrefix(sin, opReserve)

\* the server has processed the lines of a second reserve, on a map with foo
\* true and bar false, after one on {default, bar}: bar was ignored last and
\* the server watches foo alone
C28_WitnessTwoIgnores ==
    /\ nops = 2 /\ pc = "wait"
    /\ call.ts = <<(nFoo :> TRUE) @@ (nBar :> FALSE)>>
    /\ Len(SplitCRLF(call.recon)) = 3
    /\ srvWatched = {nFoo}
    /\ sin = call.cmd

\* C32: a body an operation returned holds, after every later operation on
\* the connection, the bytes it held when it was returned.
C32_BodyKept ==
    \A i \in DOMAIN held : held[i].now = held[i].was

\* the session the server has after it has processed the command lines in
\* bytes, from the used tube u and the watch set ws: [used, watched]
RECURSIVE srvRun(_, _, _)
srvRun(bytes, u, ws) ==
    LET i == IndexCRLF(bytes)
        toks == Split(SubSeq(bytes, 1, i - 1))
        rest == Drop(bytes, i + 1)
    IN IF i = 0 THEN [used |-> u, watched |-> ws]
       ELSE IF ~IsRecon(toks) THEN srvRun(Drop(rest, srvPutBytes(toks)), u, ws)
       ELSE IF toks[1] = cmdUse THEN srvRun(rest, toks[2], ws)
       ELSE IF toks[1] = cmdWatch THEN srvRun(rest, u, ws \cup {toks[2]})
       ELSE srvRun(rest, u, srvIgnore(ws, toks[2]))

\* C33: whenever no operation is in progress, the remembered used name and
\* watched set are the used tube and the watch set the server has once it
\* has processed every command byte the client has produced, those flushed
\* and those still in the write buffer; the writer has not failed.
C33_SessionAgrees ==
    (pc = "idle" /\ werr = NoErr) =>
        LET srv == srvRun(sin \o w, srvUsed, srvWatched) IN
        /\ used = srv.used
        /\ watched = srv.watched

------------------------------------------------------------------------------
(* Body framing: a body is framed by the write path, echoed by the peer      *)
(* after a header that declares its length, and read back by the read path   *)

\* the bytes a body is made of
BodyBytes == {"a", " ", "\r", "\n"}

Bodies == UNION { [1..k -> BodyBytes] : k \in 0..MaxBody }

\* cmdTube with a body: put <pri> <delay> <ttr> <len> CR LF <body> CR LF
FrameWrite ==
    /\ pc = "idle"
    /\ nops < MaxFrames
    /\ \E b \in Bodies :
           LET cb == cmdBytes(<<b>>, opPut, <<>>, <<0, 0, 0>>) IN
           /\ call' = [CallNone EXCEPT !.kind = "frame", !.op = opPut, !.body = <<b>>,
                                       !.args = <<0, 0, 0>>, !.cmd = cb,
                                       !.readBody = TRUE, !.word = wFound, !.nargs = 1]
           /\ sin' = sin \o w \o cb
    /\ w' = <<>>
    /\ ret' = RetNone
    /\ pc' = "wait"
    /\ nops' = nops + 1
    /\ UNCHANGED <<used, watched, werr, buf, held, pipe, sout, srvUsed, srvWatched, intents, seen>>

\* the peer answers FOUND 1 and echoes what the write path framed: the
\* space, the length, CR LF, the body and CR LF
FrameEcho ==
    /\ call.kind = "frame"
    /\ sin # <<>>
    /\ sout' = sout \o wFound \o space \o AppendUint(1)
                    \o Drop(sin, Len(print(call.op, <<>>, call.args)))
    /\ sin' = <<>>
    /\ UNCHANGED <<used, watched, w, werr, buf, held, pipe, srvUsed, srvWatched, pc, call, ret, intents, seen, nops>>

\* readRespArgs(r, true, "FOUND", args) of the echoed response
FrameRead ==
    /\ pc = "wait"
    /\ call.kind = "frame"
    /\ LET rr == readRawResp(sout, call.op, call.readBody)
           res == readRespArgs(rr, call.op, call.word, call.nargs)
       IN /\ rr.avail
          /\ ~rr.panic
          /\ sout' = rr.rest
          /\ \E rd \in {readInto(buf, held, sout, call.readBody)} :
                 /\ buf' = rd.buf
                 /\ held' = holdBody(rd.held, call.readBody, FALSE, res)
          /\ ret' = [err |-> res.err, body |-> res.body, args |-> res.args,
                     val |-> <<>>, line |-> rr.line, done |-> TRUE]
    /\ pc' = "idle"
    /\ UNCHANGED <<used, watched, w, werr, pipe, sin, srvUsed, srvWatched, call, intents, seen, nops>>

FrameNext ==
    \/ FrameWrite
    \/ FrameEcho
    \/ FrameRead

SpecFrame == Init /\ [][FrameNext]_vars

\* C11: a body framed by the write path and read back after a header that
\* declares its length is returned byte for byte, with exactly that length,
\* whatever bytes it holds; nothing of it is left unread.
C11_BodyRoundTrip ==
    ret.done =>
        /\ ret.err = NoErr
        /\ ret.body = call.body
        /\ Len(ret.body[1]) = Len(call.body[1])
        /\ sout = <<>>

\* a body holding CR LF and a space was read back
C11_Witness ==
    /\ ret.done
    /\ call.body = << <<"\r", "\n", " ">> >>
    /\ ret.body = << <<"\r", "\n", " ">> >>

------------------------------------------------------------------------------
(* Header lines: Conn.scan and findRespError applied to a line                *)

\* a fresh connection on which the call c is in progress at pc = p with the
\* bytes out unread
Fresh(c, out, p) ==
    /\ used = nDefault
    /\ watched = {nDefault}
    /\ w = <<>>
    /\ werr = NoErr
    /\ buf = <<>>
    /\ held = <<>>
    /\ pipe = NewPipeline
    /\ sin = <<>>
    /\ sout = out
    /\ srvUsed = nDefault
    /\ srvWatched = {nDefault}
    /\ pc = p
    /\ call = c
    /\ ret = RetNone
    /\ intents = <<>>
    /\ seen = SeenNone
    /\ nops = 0

\* decimal tokens with their values
Tokens ==
    { [t |-> <<"0">>, v |-> 0], [t |-> <<"7">>, v |-> 7], [t |-> <<"0", "0", "7">>, v |-> 7],
      [t |-> <<"1", "0">>, v |-> 10], [t |-> AppendUint(MaxUint), v |-> MaxUint] }

TokenSeqs == UNION { [1..k -> Tokens] : k \in 0..MaxScanArgs }

\* the line word n1 ... nk for the tokens ts
RECURSIVE TokenLine(_, _)
TokenLine(word, ts) ==
    IF ts = <<>> THEN word
    ELSE TokenLine(word \o space \o Head(ts).t, Tail(ts))

ScanWords == {wDeleted, wKicked, wFound}

ReservedWords ==
    { resBadFormat, resBuried, resDeadline, resDraining, resInternal, resJobTooBig,
      resNoCRLF, resNotFound, resNotIgnored, resOOM, resTimeout, resUnknown }

\* the lower-case letter of a first byte of a reserved word
LowerCase(c) ==
    CASE c = "B" -> "b" [] c = "D" -> "d" [] c = "E" -> "e" [] c = "I" -> "i"
      [] c = "J" -> "j" [] c = "N" -> "n" [] c = "O" -> "o" [] c = "T" -> "t"
      [] c = "U" -> "u" [] OTHER -> c

\* lines a server may send that are no success line: the reserved words,
\* their proper prefixes, extensions and other spellings, and other lines
OtherLines ==
    ReservedWords
    \cup { SubSeq(r, 1, Len(r) - 1) : r \in ReservedWords }
    \cup { r \o <<"X">> : r \in ReservedWords }
    \cup { r \o space \o <<"1">> : r \in ReservedWords }
    \cup { <<LowerCase(r[1])>> \o Tail(r) : r \in ReservedWords }
    \cup { <<>>, <<"B">>, <<"X">>,
           wDeleted \o <<"X">>,
           wKicked \o space \o <<"1", "2", "a", "b", "c">>,
           wKicked \o space \o <<"x">>,
           wKicked \o space,
           wKicked \o space \o space \o <<"1">>,
           wFound \o space \o AppendUint(MaxUint) \o <<"0">>,
           wFound \o space \o <<"7">> \o space \o AppendUint(maxSize),
           wFound \o space \o <<"7">> \o space \o AppendUint(maxSize + 1),
           wFound \o space \o <<"7">> \o space \o <<"-", "1">>,
           wFound \o space \o <<"7">> \o space \o <<"+", "1">>,
           wFound \o space \o <<"7">> \o space,
           space \o <<"3">>, space,
           <<"7">>, <<"0", "0", "7">>, <<"1", "2", "a", "3">>, <<"-", "1">>,
           AppendUint(MaxUint), AppendUint(MaxUint + 1), AppendUint(MaxUint) \o <<"0">>,
           AppendUint(MaxUint \div 10) \o <<"9">>, AppendUint(MaxUint \div 10 + 1) \o <<"0">>,
           <<"0", "0">> \o AppendUint(MaxUint) \o <<"x">>,
           <<"9", "9", "9", "9", "9", "9", "9">> }

Lines == { TokenLine(wd, ts) : wd \in ScanWords, ts \in TokenSeqs } \cup OtherLines

\* a line has arrived that is to be matched against the word with nargs integers
LineInit ==
    \E l \in Lines, wd \in ScanWords, n \in 0..MaxScanArgs :
        Fresh([CallNone EXCEPT !.kind = "line", !.cmd = l, !.word = wd, !.nargs = n],
              <<>>, "line")

\* Conn.scan(input, cmd, args)
Scan ==
    /\ pc = "line"
    /\ LET r == scan(call.cmd, call.word, call.nargs) IN
       ret' = [RetNone EXCEPT !.err = r.err, !.args = r.args, !.line = call.cmd,
                              !.done = TRUE]
    /\ pc' = "scanned"
    /\ UNCHANGED <<used, watched, w, werr, buf, held, pipe, sin, sout, srvUsed, srvWatched, call, intents, seen, nops>>

\* findRespError(s)
Classify ==
    /\ pc = "line"
    /\ ret' = [RetNone EXCEPT !.err = findRespError(call.cmd), !.line = call.cmd,
                              !.done = TRUE]
    /\ pc' = "classified"
    /\ UNCHANGED <<used, watched, w, werr, buf, held, pipe, sin, sout, srvUsed, srvWatched, call, intents, seen, nops>>

\* parseSize(s): the header is kept in ret.line, the size in ret.args
Size ==
    /\ pc = "line"
    /\ LET r == parseSize(call.cmd) IN
       ret' = [RetNone EXCEPT !.err = r.err, !.args = <<r.size>>, !.line = r.header,
                              !.done = TRUE]
    /\ pc' = "sized"
    /\ UNCHANGED <<used, watched, w, werr, buf, held, pipe, sin, sout, srvUsed, srvWatched, call, intents, seen, nops>>

\* parseUint(s): ret.args is <<v, k>>
Uint ==
    /\ pc = "line"
    /\ ret' = [RetNone EXCEPT !.args = parseUint(call.cmd), !.line = call.cmd, !.done = TRUE]
    /\ pc' = "parsed"
    /\ UNCHANGED <<used, watched, w, werr, buf, held, pipe, sin, sout, srvUsed, srvWatched, call, intents, seen, nops>>

LineNext ==
    \/ Scan
    \/ Classify
    \/ Size
    \/ Uint

SpecLine == LineInit /\ [][LineNext]_vars

\* the values of the tokens ts
TokenValues(ts) == [i \in 1..Len(ts) |-> ts[i].v]

\* C12: a line made of the expected word and the expected number of decimal
\* tokens, each of a value up to the largest unsigned integer, scans without
\* error and captures the values of the tokens in order.
C12_ScanValid ==
    pc = "scanned" =>
        \A ts \in TokenSeqs :
            (call.cmd = TokenLine(call.word, ts) /\ call.nargs = Len(ts)) =>
                /\ ret.err = NoErr
                /\ ret.args = TokenValues(ts)

\* FOUND 7 <largest> scanned for two integers
C12_Witness ==
    /\ pc = "scanned"
    /\ call.cmd = wFound \o space \o <<"7">> \o space \o AppendUint(MaxUint)
    /\ call.nargs = 2
    /\ ret.err = NoErr
    /\ ret.args = <<7, MaxUint>>

\* the line is the word followed by exactly n decimal tokens of a value up
\* to the largest unsigned integer, separated by single spaces
ExactShape(line, word, n) ==
    LET toks == Split(line) IN
    /\ Len(toks) = n + 1
    /\ toks[1] = word
    /\ \A i \in 2..Len(toks) :
           /\ toks[i] # <<>>
           /\ \A j \in 1..Len(toks[i]) : IsDigit(toks[i][j])
           /\ digitsValue(toks[i], 0) <= MaxUint

\* C13: scan succeeds only on a line that is exactly the expected word and
\* the requested number of tokens, with nothing after the last token.
C13_ScanExact ==
    (pc = "scanned" /\ ret.err = NoErr) => ExactShape(call.cmd, call.word, call.nargs)

\* the reserved words with their error kinds
ReservedKinds ==
    { <<resBadFormat, "ErrBadFormat">>, <<resBuried, "ErrBuried">>,
      <<resDeadline, "ErrDeadline">>, <<resDraining, "ErrDraining">>,
      <<resInternal, "ErrInternal">>, <<resJobTooBig, "ErrJobTooBig">>,
      <<resNoCRLF, "ErrNoCRLF">>, <<resNotFound, "ErrNotFound">>,
      <<resNotIgnored, "ErrNotIgnored">>, <<resOOM, "ErrOOM">>,
      <<resTimeout, "ErrTimeout">>, <<resUnknown, "ErrUnknown">> }

\* C14: findRespError returns a reserved word's error kind for a line equal
\* to that word, each word its own kind, and the unknown-response error for
\* every other line; scan returns the same whatever word and count it
\* expected, once the line does not begin with the expected word.
C14_ClassifyExact ==
    LET expected(l) ==
            IF \E rk \in ReservedKinds : rk[1] = l
            THEN ErrKind((CHOOSE rk \in ReservedKinds : rk[1] = l)[2])
            ELSE unknownRespError(l)
    IN /\ Cardinality({ rk[2] : rk \in ReservedKinds }) = Cardinality(ReservedWords)
       /\ (pc = "classified" => ret.err = expected(call.cmd))
       /\ (pc = "scanned" /\ ~HasPrefix(call.cmd, call.word) => ret.err = expected(call.cmd))

\* the line NOT_IGNORED was classified as the not-ignored error
C14_Witness ==
    /\ pc = "classified"
    /\ call.cmd = resNotIgnored
    /\ ret.err = ErrKind("ErrNotIgnored")

\* C35: parseUint on s returns <<v, k>> where k is the length of the longest
\* leading run of digits of s with a value up to MaxUint and v is the value
\* of that run: the value never wraps. For the value of every shorter or
\* equal run and every digit d, the test v <= (MaxUint - d) / 10 passes
\* exactly when v * 10 + d is at most MaxUint.
C35_ParseUintExact ==
    pc = "parsed" =>
        LET s == call.cmd
            val(j) == digitsValue(SubSeq(s, 1, j), 0)
            runs == { j \in 0..Len(s) : /\ \A i \in 1..j : IsDigit(s[i])
                                        /\ val(j) <= MaxUint }
            k == CHOOSE j \in runs : \A i \in runs : i <= j
        IN /\ ret.args = <<val(k), k>>
           /\ ret.args[1] \in 0..MaxUint
           /\ \A j \in runs, d \in 0..9 :
                  (val(j) <= (MaxUint - d) \div 10) <=> (val(j) * 10 + d <= MaxUint)

\* of the digits of MaxUint followed by 0, all but the last were taken
C35_Witness ==
    /\ pc = "parsed"
    /\ call.cmd = AppendUint(MaxUint) \o <<"0">>
    /\ ret.args = <<MaxUint, Len(call.cmd) - 1>>

\* C31: parseSize on a line s without a space returns what findRespError
\* returns on s, a reserved word giving its kind; on a line with a space,
\* with t the text after the last space, it returns the text before that
\* space and the value of t when t is a non-empty run of digits of a value up
\* to maxSize, and the unknown-response error carrying s in every other case.
C31_ParseSize ==
    pc = "sized" =>
        LET s == call.cmd
            toks == Split(s)
            t == toks[Len(toks)]
            valid == /\ t # <<>>
                     /\ \A j \in 1..Len(t) : IsDigit(t[j])
                     /\ digitsValue(t, 0) <= maxSize
        IN IF Len(toks) = 1
           THEN /\ ret.err = findRespError(s)
                /\ \A rk \in ReservedKinds : s = rk[1] => ret.err = ErrKind(rk[2])
                /\ ret.err # NoErr
           ELSE IF valid
           THEN /\ ret.err = NoErr
                /\ ret.line \o space \o t = s
                /\ ret.args = <<digitsValue(t, 0)>>
           ELSE /\ ret.err = unknownRespError(s)
                /\ ret.line = <<>> /\ ret.args = <<0>>

\* FOUND 7 <maxSize> was split into FOUND 7 and the value maxSize
C31_Witness ==
    /\ pc = "sized"
    /\ call.cmd = wFound \o space \o <<"7">> \o space \o AppendUint(maxSize)
    /\ ret.err = NoErr
    /\ ret.line = wFound \o space \o <<"7">>
    /\ ret.args = <<maxSize>>

\* FOUND 7 <maxSize + 1> was refused with the whole line
C31_WitnessTooLarge ==
    /\ pc = "sized"
    /\ call.cmd = wFound \o space \o <<"7">> \o space \o AppendUint(maxSize + 1)
    /\ ret.err = unknownRespError(call.cmd)

------------------------------------------------------------------------------
(* Responses: an operation has written its command and reads a response     *)

\* response lines: the expected words alone and followed by integers and by
\* other text, the reserved words, and lines of neither sort
RespLines ==
    LET words == { c.word : c \in PendingOps }
    IN words
       \cup { wd \o space \o <<"1">> : wd \in words }
       \cup { wd \o space \o <<"7">> : wd \in words }
       \cup { wd \o space \o <<"1">> \o space \o <<"1">> : wd \in words }
       \cup { wd \o space \o <<"1", "a", "b", "c">> : wd \in words }
       \cup ReservedWords
       \cup { wReserved \o space \o <<"1">> \o space \o <<"1">>,
              wInserted \o space \o space \o <<"5">>,
              wInserted \o space \o <<"x">>,
              <<"X">>,
              wFound \o space \o <<"1">> \o space \o AppendUint(maxSize),
              wFound \o space \o <<"1">> \o space \o AppendUint(maxSize - 1) }

\* the bytes of a response with the header line: the line, CR LF and, after a
\* line that ends in the length 1 or 0, a body of that length and CR LF
RespStream(line, readBody) ==
    LET toks == Split(line)
        last == toks[Len(toks)]
    IN line \o crnl
       \o (IF readBody /\ Len(toks) > 1 /\ last = <<"1">> THEN jobBody \o crnl
           ELSE IF readBody /\ Len(toks) > 1 /\ last = <<"0">> THEN crnl
           ELSE <<>>)

\* the command of an operation has been written and its response has arrived
RespInit ==
    \E c \in PendingOps, l \in RespLines :
        Fresh(c, RespStream(l, c.readBody), "wait")

SpecResp == RespInit /\ [][Recv]_vars

\* C36: whenever a read that expects a body has a header line whose length
\* the length splitter accepts, the read size, the length plus two for the
\* terminator, is not negative in the signed integer it is computed in
C36_ReadSizeInRange ==
    LET l == skipAcks(sout)
        ps == parseSize(l.line)
    IN (/\ pc = "wait" /\ call.readBody
        /\ l.avail /\ ~l.panic /\ l.err = NoErr
        /\ ps.err = NoErr)
       => readSize(ps.size) >= 0

\* the command of an operation has been written and the peer has answered;
\* the answer is kept in call.cmd. Its first line ends in a line feed: after
\* a carriage return, after another byte, or as the only byte of the line
RawInit ==
    LET ls == ReservedWords \cup { <<>>, <<"X">>, wInserted \o space \o <<"7">>,
                                   wFound \o space \o <<"1">> \o space \o <<"0">> }
        RawStreams == { l \o crnl \o crnl : l \in ls }
                      \cup { l \o <<"\n">> \o crnl : l \in ls }
                      \cup { l \o <<"\r", "\r", "\n">> \o crnl : l \in ls }
    IN \E c \in PendingOps, st \in RawStreams :
           Fresh([c EXCEPT !.cmd = st], st, "wait")

SpecRaw == RawInit /\ [][Recv]_vars

\* C38: reading a line that ends in a line feed does not stop in a panic on
\* a slice bound, whatever comes before the line feed, and the line read
\* from bytes that end in carriage return and line feed is those bytes
\* without the two of the terminator
C38_ReadLineSafe ==
    LET i == IndexByte(call.cmd, "\n") IN
    /\ pc # "panic"
    /\ (ret.done /\ i >= 2 /\ call.cmd[i - 1] = "\r"
           => ret.line = SubSeq(call.cmd, 1, i - 2))

\* the response line was taken as the success and the body that came with
\* it could not be decoded
DecodeFailed == ret.err # NoErr /\ ret.body # NilBody

\* the text an unknown-response error carries, <<"none">> for another error
UnknownText(e) ==
    IF e.type = "unknownRespError" THEN e.text
    ELSE IF e.type = "ConnError" /\ e.err.type = "unknownRespError" THEN e.err.text
    ELSE <<"none">>

\* C15: the text of an unknown-response error an operation fails with is the
\* response header line as it was received.
C15_UnknownKeepsLine ==
    (ret.done /\ ~DecodeFailed /\ UnknownText(ret.err) # <<"none">>)
        => UnknownText(ret.err) = ret.line

\* C16: an operation that fails on its response line returns a ConnError
\* whose Op is the command word sent and whose Err is the error kind of the
\* reserved word received, or the unknown-response error.
C16_ErrorsAreConnErrors ==
    (ret.done /\ ret.err # NoErr /\ ~DecodeFailed) =>
        /\ ret.err.type = "ConnError"
        /\ ret.err.op = call.op
        /\ \/ ret.err.err.type = "unknownRespError"
           \/ \E rk \in ReservedKinds : ret.err.err = ErrKind(rk[2])
        /\ \A rk \in ReservedKinds : ret.line = rk[1] => ret.err.err = ErrKind(rk[2])

\* C17: put returns (n, no error) for INSERTED n, (n, ConnError of the
\* buried kind with Op put) for BURIED n, and (0, an error) for every other
\* response.
C17_PutMapping ==
    (ret.done /\ call.kind = "put") =>
        LET n == digitsValue(Split(ret.line)[2], 0) IN
        IF ExactShape(ret.line, wInserted, 1)
        THEN ret.args = <<n>> /\ ret.err = NoErr
        ELSE IF ExactShape(ret.line, resBuried, 1)
        THEN ret.args = <<n>> /\ ret.err = ConnError(opPut, ErrKind("ErrBuried"))
        ELSE ret.args = <<0>> /\ ret.err # NoErr

\* the response's line has the shape of the success response the operation
\* expects: its word, the integers it scans and, before a body, a length
SuccessShape(c, line) ==
    ExactShape(line, c.word, c.nargs + (IF c.readBody THEN 1 ELSE 0))

\* C18: a response of the shape the operation expects as its success is
\* taken as the success, also when its line is a reserved error word: the
\* operation returns no error, unless it goes on to decode the body and
\* that fails.
C18_SuccessBeforeClassify ==
    (ret.done /\ SuccessShape(call, ret.line)) => (ret.err = NoErr \/ DecodeFailed)

\* bury answered BURIED returned no error
C18_Witness ==
    /\ ret.done
    /\ call.op = <<"b", "u", "r", "y">>
    /\ ret.line = resBuried
    /\ ret.err = NoErr

------------------------------------------------------------------------------
(* Names: CheckName applied to a name                                        *)

\* short names over allowed and disallowed bytes, and names of a length
\* about NameTooLong: of allowed bytes, of disallowed bytes, and with one
\* disallowed byte at either end
Names ==
    UNION { [1..k -> {"a", "_", "*", " "}] : k \in 0..MaxShortName }
    \cup UNION { { [i \in 1..n |-> "a"], [i \in 1..n |-> "*"],
                   [i \in 1..n |-> IF i = 1 THEN " " ELSE "a"],
                   [i \in 1..n |-> IF i = n THEN "\n" ELSE "a"] } :
                 n \in {NameTooLong - 1, NameTooLong, NameTooLong + 1} }

\* a Tube with the name is about to be validated
NameInit ==
    \E n \in Names : Fresh([CallNone EXCEPT !.kind = "name", !.t = TubeOf(n)], <<>>, "name")

\* CheckName(s)
CheckName ==
    /\ pc = "name"
    /\ ret' = [RetNone EXCEPT !.err = checkName(call.t[1]), !.done = TRUE]
    /\ pc' = "named"
    /\ UNCHANGED <<used, watched, w, werr, buf, held, pipe, sin, sout, srvUsed, srvWatched, call, intents, seen, nops>>

SpecName == NameInit /\ [][CheckName]_vars

\* C19: a name is accepted exactly when it has 1 to 199 bytes, all of them
\* allowed; it is reported empty exactly when it has no byte, too long
\* exactly when it has 200 bytes or more, and bad char exactly when it has 1
\* to 199 bytes and one of them is not allowed.
C19_CheckNameExact ==
    pc = "named" =>
        LET n == call.t[1]
            allowed == \A i \in 1..Len(n) : n[i] \in NameChars
        IN /\ ret.err = NoErr <=> (1 <= Len(n) /\ Len(n) <= 199 /\ allowed)
           /\ ret.err = NameError(n, "ErrEmpty") <=> Len(n) = 0
           /\ ret.err = NameError(n, "ErrTooLong") <=> Len(n) >= 200
           /\ ret.err = NameError(n, "ErrBadChar") <=>
                  (1 <= Len(n) /\ Len(n) <= 199 /\ ~allowed)

\* a name of 201 disallowed bytes was reported too long
C19_Witness ==
    /\ pc = "named"
    /\ call.t[1] = [i \in 1..201 |-> "*"]
    /\ ret.err = NameError(call.t[1], "ErrTooLong")

------------------------------------------------------------------------------
(* Decoding of bodies: stats, stats-job, stats-tube and list-tubes have      *)
(* written their command and read a response with a YAML block                *)

MaxLines == 2
MaxParts == 3

\* the blocks the operation op may be answered with. A block of statistics
\* is [head, lines, lf]: with the marker or not, the lines, and whether the
\* last line ends in a line feed; a line has the name, the value, whether
\* ": " stands between them, and the number the value denotes, -1 when it is
\* no unsigned decimal number up to MaxUint. A list is [head, parts]: with
\* the marker or not, and the parts line feeds separate, each with a bullet
\* or not.
Blocks(op) ==
    LET StatLines ==
            { [name |-> <<"c", "u", "r", "r", "e", "n", "t", "-", "j", "o", "b", "s", "-", "r", "e", "a", "d", "y">>, value |-> <<"4">>, sep |-> TRUE, v |-> 4],
              [name |-> <<"i", "d">>, value |-> <<"7">>, sep |-> TRUE, v |-> 7],
              [name |-> <<"t", "o", "t", "a", "l", "-", "j", "o", "b", "s">>, value |-> AppendUint(MaxUint), sep |-> TRUE, v |-> MaxUint],
              [name |-> <<"i", "d">>, value |-> <<"0", "4">>, sep |-> TRUE, v |-> 4],
              [name |-> <<"t", "u", "b", "e">>, value |-> <<"x">>, sep |-> TRUE, v |-> -1],
              [name |-> <<"v", "e", "r", "s", "i", "o", "n">>, value |-> <<"1">>, sep |-> TRUE, v |-> 1],
              [name |-> <<"i", "d">>, value |-> AppendUint(MaxUint + 1), sep |-> TRUE, v |-> -1],
              [name |-> <<"t", "o", "t", "a", "l", "-", "j", "o", "b", "s">>, value |-> <<"-", "1">>, sep |-> TRUE, v |-> -1],
              [name |-> <<"i", "d">>, value |-> <<>>, sep |-> TRUE, v |-> -1],
              [name |-> <<"i", "d", ":", "4">>, value |-> <<>>, sep |-> FALSE, v |-> -1],
              [name |-> <<>>, value |-> <<>>, sep |-> FALSE, v |-> -1],
              [name |-> <<"z", "z", "z">>, value |-> <<"y", ":", " ", "1">>, sep |-> TRUE, v |-> -1] }
    IN
    IF op = <<"l", "i", "s", "t", "-", "t", "u", "b", "e", "s">>
    THEN { [head |-> hd, parts |-> ps] :
               hd \in BOOLEAN,
               ps \in UNION { [1..k -> [bullet : BOOLEAN, text : {<<>>, <<"1">>, nDefault}]] :
                                  k \in 1..MaxParts } }
    ELSE { blk \in { [head |-> hd, lines |-> ls, lf |-> lf] :
                         hd \in BOOLEAN, lf \in BOOLEAN,
                         ls \in UNION { [1..k -> StatLines] : k \in 0..MaxLines } } :
               \* a last line without line feed has at least one byte
               \/ blk.lines = <<>>
               \/ blk.lf
               \/ blk.lines[Len(blk.lines)].name # <<>> }

\* the bytes of a block
BlockBytes(blk) ==
    LET RECURSIVE join(_)
        join(ps) ==
            IF ps = <<>> THEN <<>>
            ELSE IF Len(ps) = 1 THEN ps[1]
            ELSE ps[1] \o <<"\n">> \o join(Tail(ps))
        lineBytes(l) == l.name \o (IF l.sep THEN <<":", " ">> ELSE <<>>) \o l.value
        partBytes(p) == (IF p.bullet THEN <<"-", " ">> ELSE <<>>) \o p.text
        body == IF "parts" \in DOMAIN blk
                THEN join([i \in 1..Len(blk.parts) |-> partBytes(blk.parts[i])])
                ELSE join([i \in 1..Len(blk.lines) |-> lineBytes(blk.lines[i])])
                     \o (IF blk.lines # <<>> /\ blk.lf THEN <<"\n">> ELSE <<>>)
    IN (IF blk.head THEN yamlHead ELSE <<>>) \o body

\* the command of the operation has been written and the response has
\* arrived: OK with a block, held in call.args, or NOT_FOUND
BodyInit ==
    \E c \in { o \in PendingOps : o.word = wOK } :
        \/ \E blk \in Blocks(c.op) :
               Fresh([c EXCEPT !.args = <<blk>>,
                               !.s = IF c.op = opStatsTube THEN nFoo ELSE <<>>],
                     wOK \o space \o AppendUint(Len(BlockBytes(blk))) \o crnl
                         \o BlockBytes(blk) \o crnl,
                     "wait")
        \/ Fresh(c, resNotFound \o crnl, "wait")

SpecBody == BodyInit /\ [][Recv]_vars

\* the names with a numeric field and with a string field in the record of
\* the operation op, the former with their slots
NumericNames(op) ==
    CASE op = <<"s", "t", "a", "t", "s", "-", "j", "o", "b">> -> (<<"i", "d">> :> 1) @@ (<<"p", "r", "i">> :> 2)
      [] OTHER -> (<<"c", "u", "r", "r", "e", "n", "t", "-", "j", "o", "b", "s", "-", "r", "e", "a", "d", "y">> :> 1) @@ (<<"t", "o", "t", "a", "l", "-", "j", "o", "b", "s">> :> 2)

StringNames(op) ==
    CASE op = <<"s", "t", "a", "t", "s">> -> {<<"v", "e", "r", "s", "i", "o", "n">>, <<"i", "d">>}
      [] op = <<"s", "t", "a", "t", "s", "-", "j", "o", "b">> -> {<<"t", "u", "b", "e">>, <<"s", "t", "a", "t", "e">>}
      [] OTHER -> {}

\* an operation that decodes statistics has returned on a block
StatsDone ==
    /\ ret.done
    /\ call.op # <<"l", "i", "s", "t", "-", "t", "u", "b", "e", "s">>
    /\ call.args # <<>>

\* the value of the last line of ls named n, none when there is none
LastOf(ls, n, none, numeric) ==
    LET at == { i \in 1..Len(ls) : ls[i].name = n }
        i == CHOOSE i \in at : \A j \in at : j <= i
    IN IF at = {} THEN none ELSE IF numeric THEN ls[i].v ELSE ls[i].value

\* C22: when every line of a block of statistics is a terminated
\* "name: value" line and every value of a name of the field mapping is an
\* unsigned decimal number, the decoding succeeds, each slot holds the value
\* given for its name (0 when the block does not name it), each string field
\* holds the value handed to the handler for its name, and the lines of
\* other names change nothing; without a handler they are dropped.
C22_StatsStored ==
    StatsDone =>
        LET blk == call.args[1]
            ls == blk.lines
            num == NumericNames(call.op)
            wellFormed ==
                /\ ls # <<>> => blk.lf
                /\ \A i \in 1..Len(ls) :
                       /\ ls[i].sep
                       /\ ls[i].name \in DOMAIN num => ls[i].v >= 0
        IN wellFormed =>
               /\ ret.err = NoErr
               /\ \A n \in DOMAIN num : ret.val.nums[num[n]] = LastOf(ls, n, 0, TRUE)
               /\ DOMAIN ret.val.strs = StringNames(call.op)
               /\ \A n \in StringNames(call.op) :
                      ret.val.strs[n] = LastOf(ls, n, <<>>, FALSE)

\* stats-tube decoded a block that names current-jobs-ready 4, a tube and an
\* unknown name: the slot holds 4 and nothing else was stored
C22_Witness ==
    /\ StatsDone
    /\ call.op = opStatsTube
    /\ BlockBytes(call.args[1]) =
           yamlHead \o <<"c", "u", "r", "r", "e", "n", "t", "-", "j", "o", "b", "s", "-", "r", "e", "a", "d", "y", ":", " ", "4", "\n">> \o <<"z", "z", "z", ":", " ", "y", ":", " ", "1", "\n">>
    /\ ret.err = NoErr
    /\ ret.val.nums = <<4, 0>>

\* the first line of ls that stops the decoding, 0 when none does: a line
\* without ": ", a last line without line feed, or a value of a numeric name
\* that is no number
FirstDefect(blk, num) ==
    LET ls == blk.lines
        bad == { i \in 1..Len(ls) :
                     \/ ~ls[i].sep
                     \/ i = Len(ls) /\ ~blk.lf
                     \/ ls[i].name \in DOMAIN num /\ ls[i].v < 0 }
    IN IF bad = {} THEN 0 ELSE CHOOSE i \in bad : \A j \in bad : i <= j

\* the text of a line
LineText(l) == l.name \o (IF l.sep THEN <<":", " ">> ELSE <<>>) \o l.value

\* C23 as stated: whenever a line of the block has no ": " or the last line
\* of a block with lines has no line feed, the decoding fails with an
\* unknown-response error that carries the text of such a line.
C23_MalformedIsUnknown ==
    StatsDone =>
        LET blk == call.args[1]
            ls == blk.lines
            off == { i \in 1..Len(ls) : ~ls[i].sep \/ (i = Len(ls) /\ ~blk.lf) }
        IN off # {} =>
               /\ ret.err.type = "unknownRespError"
               /\ \E i \in off : ret.err.text = LineText(ls[i])

\* C23 amended: when the first line that stops the decoding has no ": " or
\* is the last line and has no line feed, the decoding fails with an
\* unknown-response error that carries the text of that line; when it is a
\* terminated "name: value" line whose value is no number, the decoding
\* fails with the error of the conversion.
C23_FirstDefectDecides ==
    StatsDone =>
        LET blk == call.args[1]
            ls == blk.lines
            d == FirstDefect(blk, NumericNames(call.op))
        IN d # 0 =>
               IF ~ls[d].sep \/ (d = Len(ls) /\ ~blk.lf)
               THEN ret.err = unknownRespError(LineText(ls[d]))
               ELSE ret.err.type = "NumError" /\ ret.err.num = ls[d].value

\* stats-job met "id:4" after a good line and reported that line
C23_Witness ==
    /\ StatsDone
    /\ call.op = <<"s", "t", "a", "t", "s", "-", "j", "o", "b">>
    /\ BlockBytes(call.args[1]) = <<"i", "d", ":", " ", "7", "\n">> \o <<"i", "d", ":", "4", "\n">>
    /\ ret.err = unknownRespError(<<"i", "d", ":", "4">>)

\* C30: when the block gives a numeric field a value that is no unsigned
\* decimal number, the operation fails and returns the zero record: no
\* value of the block shows in it.
C30_BadValueZeroRecord ==
    StatsDone =>
        LET ls == call.args[1].lines
            num == NumericNames(call.op)
        IN (\E i \in 1..Len(ls) : ls[i].sep /\ ls[i].name \in DOMAIN num /\ ls[i].v < 0)
           => /\ ret.err # NoErr
              /\ ret.val = [name |-> <<>>, nums |-> <<0, 0>>,
                            strs |-> [s \in StringNames(call.op) |-> <<>>]]

\* stats decoded current-jobs-ready 4 and then met total-jobs -1
C30_Witness ==
    /\ StatsDone
    /\ call.op = <<"s", "t", "a", "t", "s">>
    /\ BlockBytes(call.args[1]) = yamlHead \o <<"c", "u", "r", "r", "e", "n", "t", "-", "j", "o", "b", "s", "-", "r", "e", "a", "d", "y", ":", " ", "4", "\n">> \o <<"t", "o", "t", "a", "l", "-", "j", "o", "b", "s", ":", " ", "-", "1", "\n">>
    /\ ret.err = [type |-> "NumError", num |-> <<"-", "1">>, err |-> "ErrSyntax"]
    /\ ret.val.nums = <<0, 0>>

\* C24: parseList strips the marker when the body begins with it, splits
\* the rest at the line feeds, strips the bullet from each part and drops
\* the last part when it is empty after that, and only that one; a body
\* that is absent gives no list, an empty body the empty list.
C24_ParseList ==
    (ret.done /\ call.op = <<"l", "i", "s", "t", "-", "t", "u", "b", "e", "s">>) =>
        IF call.args = <<>> THEN ret.val = <<>> /\ ret.err # NoErr
        ELSE LET ps == call.args[1].parts
                 texts == [i \in 1..Len(ps) |-> ps[i].text]
                 n == Len(texts)
             IN /\ ret.err = NoErr
                /\ ret.val = << IF texts[n] = <<>> THEN SubSeq(texts, 1, n - 1) ELSE texts >>

\* list-tubes decoded "---\n- default\n" into the one name default
C24_Witness ==
    /\ ret.done
    /\ call.op = <<"l", "i", "s", "t", "-", "t", "u", "b", "e", "s">>
    /\ call.args # <<>>
    /\ BlockBytes(call.args[1]) = yamlHead \o <<"-", " ", "d", "e", "f", "a", "u", "l", "t", "\n">>
    /\ ret.val = << <<nDefault>> >>

\* list-tubes answered with NOT_FOUND gives no list, answered with an empty
\* body the empty list
C24_WitnessNil ==
    /\ ret.done
    /\ call.op = <<"l", "i", "s", "t", "-", "t", "u", "b", "e", "s">>
    /\ call.args = <<>>
    /\ ret.val = <<>>

C24_WitnessEmpty ==
    /\ ret.done
    /\ call.op = <<"l", "i", "s", "t", "-", "t", "u", "b", "e", "s">>
    /\ call.args # <<>>
    /\ BlockBytes(call.args[1]) = <<>>
    /\ ret.val = << <<>> >>

------------------------------------------------------------------------------
(* Responses cut short: the peer closes the connection within a response     *)

\* the command of an operation has been written, the first k bytes of the
\* response with the header line l have arrived, and the stream has ended
ShortInit ==
    \E c \in PendingOps, l \in RespLines :
        \E k \in 0..(Len(RespStream(l, c.readBody)) - 1) :
            Fresh([c EXCEPT !.cmd = l, !.args = <<k>>],
                  SubSeq(RespStream(l, c.readBody), 1, k) \o <<"EOF">>, "wait")

SpecShort == ShortInit /\ [][Recv]_vars

\* the body length the line declares: the number after its last space, -1
\* when the line has no space or what follows it is no decimal number
Declared(line) ==
    LET toks == Split(line)
        last == toks[Len(toks)]
    IN IF Len(toks) > 1 /\ last # <<>> /\ (\A j \in 1..Len(last) : IsDigit(last[j]))
       THEN digitsValue(last, 0)
       ELSE -1

\* C26: a read that expects a body and fails on a header line that declares
\* a body length has consumed the body and its terminator all the same:
\* nothing of the response is left in the stream for the next read.
C26_BodyConsumedOnMismatch ==
    (ret.done /\ call.readBody /\ ret.err # NoErr /\ Declared(ret.line) >= 0)
        => sout = <<>>

\* peek was answered RESERVED 1 1 with a body: it failed and left nothing
C26_Witness ==
    /\ ret.done
    /\ call.op = opPeek
    /\ ret.line = wReserved \o <<" ", "1", " ", "1">>
    /\ ret.err.type = "ConnError"
    /\ sout = <<>>

\* C29: when the stream ends before the declared body and its 2-byte
\* terminator have arrived in full, the operation returns a ConnError with
\* its command word and the error of the read, and returns no body, whatever
\* the header line.
C29_ShortBody ==
    (ret.done /\ call.readBody) =>
        LET n == Declared(call.cmd)
            got == call.args[1] - (Len(call.cmd) + 2)
        IN (n >= 0 /\ got >= 0 /\ got < n + 2)
           => /\ ret.err.type = "ConnError"
              /\ ret.err.op = call.op
              /\ ret.err.err.type \in {"EOF", "ErrUnexpectedEOF"}
              /\ ret.body = NilBody

\* peek was answered FOUND 1 1 and the stream ended after the one byte of
\* the body
C29_Witness ==
    /\ ret.done
    /\ call.op = opPeek
    /\ call.cmd = wFound \o <<" ", "1", " ", "1">>
    /\ call.args = <<Len(call.cmd) + 3>>
    /\ ret.err = ConnError(opPeek, [type |-> "ErrUnexpectedEOF"])
    /\ ret.body = NilBody

------------------------------------------------------------------------------
(* The revision that sequences requests through a textproto.Pipeline.       *)
(* StartRequest(id) returns when request = id and blocks until then;        *)
(* EndRequest(id) makes it the turn of id+1. StartResponse and EndResponse  *)
(* do the same with response. One caller uses the connection, so a number   *)
(* whose turn has not come when its operation asks for it never gets it     *)

\* Conn.cmd up to StartRequest: an operation is invoked and takes the next
\* number of the pipeline
PipeNext ==
    /\ pc = "idle"
    /\ nops < MaxOps
    /\ \/ \E name \in TubeNames, in \in PutInputs :
              call' = [CallNone EXCEPT !.kind = "put", !.op = opPut, !.t = TubeOf(name),
                                       !.body = in[1], !.args = in[2], !.word = wInserted,
                                       !.nargs = 1]
       \/ \E ts \in TubeSets, timeout \in ReserveTimeouts :
              call' = [CallNone EXCEPT !.kind = "scan", !.op = opReserve, !.ts = ts,
                                       !.args = <<timeout>>, !.word = wReserved,
                                       !.nargs = 1, !.readBody = TRUE]
    /\ pipe' = [pipe EXCEPT !.r = pipe.id, !.id = pipe.id + 1]
    /\ nops' = nops + 1
    /\ ret' = RetNone
    /\ pc' = "start"
    /\ UNCHANGED <<used, watched, w, werr, buf, held, sin, sout, srvUsed, srvWatched, intents, seen>>

\* Conn.cmd from the return of StartRequest: adjustTubes of this revision
\* (c.watched is replaced by the keys of ts.Name after the two loops), the
\* command, the flush and EndRequest. The returns on a name error and on a
\* flush error come before EndRequest. The peer's answer to a command that
\* was sent is one line
PipeCmd ==
    /\ pc = "start"
    /\ pipe.request = pipe.r
    /\ \E kord \in Orders(IF call.ts = NilTubeSet THEN {} ELSE DOMAIN call.ts[1]),
          iord \in Orders(watched),
          failed \in (IF werr = NoErr THEN BOOLEAN ELSE {TRUE}),
          answer \in {wInserted \o space \o <<"1">>, resTimeout} :
        LET s1 == adjustUsed(call.t, [used |-> used, watched |-> watched, out |-> <<>>,
                                      err |-> NoErr])
            wl == IF s1.err # NoErr \/ call.ts = NilTubeSet THEN s1
                  ELSE watchLoop(kord, s1)
            st == IF wl.err # NoErr \/ call.ts = NilTubeSet THEN wl
                  ELSE [ignoreLoop(iord, call.ts[1], wl) EXCEPT !.watched = DOMAIN call.ts[1]]
            cb == cmdBytes(call.body, call.op, <<>>, call.args)
        IN /\ used' = st.used
           /\ watched' = IF st.err # NoErr THEN watched ELSE st.watched
           /\ IF st.err # NoErr
              THEN /\ w' = IF werr = NoErr THEN w \o st.out ELSE w
                   /\ call' = [call EXCEPT !.recon = st.out, !.err = st.err]
                   /\ ret' = [RetNone EXCEPT !.err = st.err, !.done = TRUE]
                   /\ pc' = "idle"
                   /\ UNCHANGED <<werr, sin, sout, pipe>>
              ELSE IF failed
              THEN /\ werr' = IF werr = NoErr THEN [type |-> "ioError"] ELSE werr
                   /\ w' = <<>>
                   /\ call' = [call EXCEPT !.recon = st.out, !.err = ConnError(call.op, werr')]
                   /\ ret' = [RetNone EXCEPT !.err = ConnError(call.op, werr'), !.done = TRUE]
                   /\ pc' = "idle"
                   /\ UNCHANGED <<sin, sout, pipe>>
              ELSE /\ w' = <<>>
                   /\ sin' = sin \o w \o st.out \o cb
                   /\ sout' = sout \o answer \o crnl
                   /\ call' = [call EXCEPT !.recon = st.out, !.cmd = cb]
                   /\ pipe' = [pipe EXCEPT !.request = pipe.r + 1]
                   /\ pc' = "wait"
                   /\ UNCHANGED <<werr, ret>>
    /\ UNCHANGED <<buf, held, srvUsed, srvWatched, intents, seen, nops>>

\* Conn.readRawResp of this revision and the decoding of its line, from the
\* return of StartResponse; EndResponse is deferred and runs on every return
PipeResp ==
    /\ pc = "wait"
    /\ pipe.response = pipe.r
    /\ LET rr == readRawResp(sout, call.op, call.readBody)
           res == IF call.kind = "put" THEN putResult(rr, call.op)
                  ELSE readRespArgs(rr, call.op, call.word, call.nargs)
       IN /\ rr.avail /\ ~rr.panic
          /\ sout' = rr.rest
          /\ ret' = [RetNone EXCEPT !.err = res.err, !.args = res.args, !.line = rr.line,
                                    !.done = TRUE]
    /\ pipe' = [pipe EXCEPT !.response = pipe.r + 1]
    /\ pc' = "idle"
    /\ UNCHANGED <<used, watched, w, werr, buf, held, sin, srvUsed, srvWatched, call, intents, seen, nops>>

PipeStep ==
    \/ PipeNext
    \/ PipeCmd
    \/ PipeResp

SpecPipe == Init /\ [][PipeStep]_vars

\* C40: whenever an operation asks for its turn to send, the turn is its
\* own: every operation before it has given up the turn it took, also the
\* ones that returned a name error or a flush error, so StartRequest
\* returns and the operation goes on to write its command
C40_TurnGranted == pc = "start" => pipe.request = pipe.r

------------------------------------------------------------------------------
(* Progress: an operation that waits for its response is not stuck. The   *)
(* server answers every command line it has received, and the read of the  *)
(* operation in progress completes once the bytes it asks for have come    *)

\* a connection on which Reserve on a TubeSet without names has returned
\* the NOT_IGNORED that answered its ignore line: the client watches
\* nothing, the server default, and the answer to the reserve command,
\* TIMED_OUT, is unread
AfterRefusedIgnore ==
    /\ used = nDefault
    /\ watched = {}
    /\ w = <<>>
    /\ werr = NoErr
    /\ buf = <<>>
    /\ held = <<>>
    /\ pipe = NewPipeline
    /\ sin = <<>>
    /\ sout = resTimeout \o crnl
    /\ srvUsed = nDefault
    /\ srvWatched = {nDefault}
    /\ pc = "idle"
    /\ call = CallNone
    /\ ret = RetNone
    /\ intents = <<>>
    /\ seen = SeenNone
    /\ nops = 0

\* the read of the operation in progress can complete: Recv is enabled
RecvReady == pc = "wait" /\ readRawResp(sout, call.op, call.readBody).avail

\* the server has received a command line in full: one of its steps is enabled
SrvReady ==
    /\ srvFirst.any
    /\ IsRecon(srvFirst.toks) \/ Len(srvFirst.rest) >= srvPutBytes(srvFirst.toks)

\* a fresh connection, or one on which a reserve on a TubeSet without names
\* has returned
SpecLater == (Init \/ AfterRefusedIgnore) /\ [][Next]_vars

\* C34: every operation that has written its command returns: while it
\* waits, either its read can complete or the server still has a command
\* line to answer. A state in which neither is so is one the operation
\* stays in for ever, waiting for bytes the server will not send
C34_Returns == pc = "wait" => (RecvReady \/ SrvReady)

====
